---- MODULE Spec2Model ----
(***************************************************************************)
(* A model of the talking-bird retrieval pipeline: the sentence-aware      *)
(* chunker (document_processor.py), query expansion (query_expander.py),   *)
(* dual-channel retrieval and rank fusion (retrieval.py), the              *)
(* cross-encoder reranker (reranker.py) and confidence estimation          *)
(* (answer_generator.py).                                                  *)
(*                                                                         *)
(* Texts are sequences of one-character strings.  Python's 0-based         *)
(* indices are kept: At(s, i) is s[i] and Slice(s, a, b) is s[a:b].        *)
(***************************************************************************)
EXTENDS Integers, Sequences, FiniteSets, TLC

(***************************************************************************)
(* Bounds of the model.                                                    *)
(***************************************************************************)
\* number of pieces an input text of the chunker is built from
MaxPieces == 4
\* largest target_chunk_size tried
MaxTarget == 5
\* largest overlap_size tried
MaxOverlap == 5
\* number of pieces a completion reply is built from
MaxReplyPieces == 5
\* largest num_chunks tried on calculate_confidence
MaxConfidenceChunks == 4
\* number of chunks the vector index holds
MaxChunkIds == 2
\* largest number of pages of an uploaded file
MaxPages == 2
\* number of callers that use the lazily built handles at the same time
MaxCallers == 2

(***************************************************************************)
(* Python string primitives.                                               *)
(***************************************************************************)
At(s, i) == s[i + 1]

Slice(s, a, b) == SubSeq(s, a + 1, b)

Min(a, b) == IF a <= b THEN a ELSE b

Max(a, b) == IF a >= b THEN a ELSE b

UpperLetters ==
    <<"A", "B", "C", "D", "E", "F", "G", "H", "I", "J", "K", "L", "M",
      "N", "O", "P", "Q", "R", "S", "T", "U", "V", "W", "X", "Y", "Z">>

LowerLetters ==
    <<"a", "b", "c", "d", "e", "f", "g", "h", "i", "j", "k", "l", "m",
      "n", "o", "p", "q", "r", "s", "t", "u", "v", "w", "x", "y", "z">>

Digits == {"0", "1", "2", "3", "4", "5", "6", "7", "8", "9"}

\* str.isspace() for one character
IsSpace(c) == c \in {" ", "\n", "\t", "\r", "\f"}

\* str.isupper() for one character
IsUpper(c) == \E k \in 1..26 : UpperLetters[k] = c

\* str.isdigit() for one character
IsDigit(c) == c \in Digits

\* str.isalpha() for one character
IsAlpha(c) == \E k \in 1..26 : UpperLetters[k] = c \/ LowerLetters[k] = c

\* str.lower() for one character
LowerChar(c) ==
    IF IsUpper(c) THEN LowerLetters[CHOOSE k \in 1..26 : UpperLetters[k] = c]
    ELSE c

\* str.lower()
Lower(s) == [k \in 1..Len(s) |-> LowerChar(s[k])]

\* str.strip(): drop the leading and trailing whitespace
Strip(s) ==
    IF \A k \in 1..Len(s) : IsSpace(s[k]) THEN <<>>
    ELSE LET first == CHOOSE k \in 1..Len(s) :
                          /\ ~IsSpace(s[k])
                          /\ \A j \in 1..(k - 1) : IsSpace(s[j])
             last == CHOOSE k \in 1..Len(s) :
                          /\ ~IsSpace(s[k])
                          /\ \A j \in (k + 1)..Len(s) : IsSpace(s[j])
         IN SubSeq(s, first, last)

\* re.sub(r"\s+", " ", s): every maximal run of whitespace becomes one space
RECURSIVE SubWhitespace(_, _)
SubWhitespace(s, k) ==
    IF k > Len(s) THEN <<>>
    ELSE IF ~IsSpace(s[k]) THEN <<s[k]>> \o SubWhitespace(s, k + 1)
    ELSE IF k > 1 /\ IsSpace(s[k - 1]) THEN SubWhitespace(s, k + 1)
    ELSE <<" ">> \o SubWhitespace(s, k + 1)

\* the normalisation at the head of split_into_sentences
NormalizeWhitespace(s) == SubWhitespace(Strip(s), 1)

\* sep.join(parts)
RECURSIVE Join(_, _)
Join(parts, sep) ==
    IF Len(parts) = 0 THEN <<>>
    ELSE IF Len(parts) = 1 THEN parts[1]
    ELSE parts[1] \o sep \o Join(Tail(parts), sep)

\* sum(len(s) for s in parts)
RECURSIVE SumLen(_)
SumLen(parts) ==
    IF Len(parts) = 0 THEN 0 ELSE Len(parts[1]) + SumLen(Tail(parts))

(***************************************************************************)
(* Sentence boundary detection.                                            *)
(***************************************************************************)
ABBREVIATIONS ==
    { <<"m", "r">>, <<"m", "r", "s">>, <<"m", "s">>, <<"d", "r">>,
      <<"p", "r", "o", "f">>, <<"s", "r">>, <<"j", "r">>, <<"v", "s">>,
      <<"e", "t", "c">>, <<"i", "n", "c">>, <<"l", "t", "d">>,
      <<"c", "o", "r", "p">>, <<"c", "o">>, <<"n", "o">>, <<"v", "o", "l">>,
      <<"p", "g">>, <<"p", "p">>, <<"f", "i", "g">>, <<"a", "l">>,
      <<"e", "d">>, <<"r", "e", "v">> }

OpeningMarks == {"\"", "'", "(", "["}

SentenceEnders == {".", "!", "?"}

\* the while loop that walks back over the letters before the punctuation
RECURSIVE WordStart(_, _)
WordStart(text, word_start) ==
    IF word_start > 0 /\ IsAlpha(At(text, word_start - 1))
    THEN WordStart(text, word_start - 1)
    ELSE word_start

\* is_sentence_boundary without its look at the word before the mark
is_sentence_boundary_no_word_check(text, pos) ==
    IF pos >= Len(text) THEN TRUE
    ELSE /\ IsSpace(At(text, pos))
         /\ \E j \in (pos + 1)..(Len(text) - 1) :
               /\ \A k \in pos..(j - 1) : IsSpace(At(text, k))
               /\ \/ IsUpper(At(text, j))
                  \/ IsDigit(At(text, j))
                  \/ At(text, j) \in OpeningMarks

is_sentence_boundary(text, pos) ==
    IF pos >= Len(text) THEN TRUE
    ELSE LET remaining == Slice(text, pos, Len(text)) IN
         IF Len(remaining) = 0 \/ ~IsSpace(remaining[1]) THEN FALSE
         ELSE IF \A k \in 1..Len(remaining) : IsSpace(remaining[k]) THEN FALSE
         ELSE LET next_char_idx == CHOOSE k \in 1..Len(remaining) :
                                      /\ ~IsSpace(remaining[k])
                                      /\ \A j \in 1..(k - 1) : IsSpace(remaining[j])
                  next_char == remaining[next_char_idx]
              IN IF ~(IsUpper(next_char) \/ IsDigit(next_char)
                        \/ next_char \in OpeningMarks)
                 THEN FALSE
                 ELSE LET word_end == pos - 1 IN
                      IF word_end < 0 THEN TRUE
                      ELSE LET word_start == WordStart(text, word_end)
                               word == Lower(Slice(text, word_start, word_end))
                           IN IF word \in ABBREVIATIONS THEN FALSE
                              ELSE IF Len(word) = 1 /\ IsAlpha(word[1]) THEN FALSE
                              ELSE TRUE

\* the inner while loop of split_into_sentences: skip whitespace
RECURSIVE SkipSpaces(_, _)
SkipSpaces(text, start) ==
    IF start < Len(text) /\ IsSpace(At(text, start))
    THEN SkipSpaces(text, start + 1)
    ELSE start

\* the for loop of split_into_sentences, from index i on
RECURSIVE ScanSentences(_, _, _, _)
ScanSentences(text, i, current_start, acc) ==
    IF i >= Len(text) THEN [sentences |-> acc, current_start |-> current_start]
    ELSE IF At(text, i) \in SentenceEnders /\ is_sentence_boundary(text, i + 1)
    THEN LET sentence == Strip(Slice(text, current_start, i + 1))
             acc2 == IF Len(sentence) > 0 THEN Append(acc, sentence) ELSE acc
         IN ScanSentences(text, i + 1, SkipSpaces(text, i + 1), acc2)
    ELSE ScanSentences(text, i + 1, current_start, acc)

\* text length above which a text without sentence splits is split on
\* blank lines
ParagraphFallbackLen == 200

\* end (exclusive) of the leftmost match of \n\s*\n starting at index i, or
\* -1: the greedy \s* runs to the last newline of the whitespace run
ParagraphBreakEnd(text, i) ==
    IF At(text, i) # "\n" THEN -1
    ELSE LET ends == { j \in (i + 1)..(Len(text) - 1) :
                          /\ At(text, j) = "\n"
                          /\ \A k \in (i + 1)..j : IsSpace(At(text, k)) }
         IN IF ends = {} THEN -1
            ELSE 1 + CHOOSE j \in ends : \A k \in ends : k <= j

\* re.split(r"\n\s*\n", text)
RECURSIVE SplitParagraphs(_, _, _)
SplitParagraphs(text, start, i) ==
    IF i >= Len(text) THEN <<Slice(text, start, Len(text))>>
    ELSE LET e == ParagraphBreakEnd(text, i) IN
         IF e < 0 THEN SplitParagraphs(text, start, i + 1)
         ELSE <<Slice(text, start, i)>> \o SplitParagraphs(text, e, e)

\* [p.strip() for p in paragraphs if p.strip()]
RECURSIVE StripNonEmpty(_)
StripNonEmpty(parts) ==
    IF Len(parts) = 0 THEN <<>>
    ELSE IF Len(Strip(parts[1])) = 0 THEN StripNonEmpty(Tail(parts))
    ELSE <<Strip(parts[1])>> \o StripNonEmpty(Tail(parts))

\* split_into_sentences without its "don't forget the last part" step
split_into_sentences_no_tail(raw) ==
    LET text == NormalizeWhitespace(raw) IN
    IF Len(text) = 0 THEN <<>>
    ELSE LET scan == ScanSentences(text, 0, 0, <<>>)
         IN IF Len(scan.sentences) > 0 THEN scan.sentences ELSE <<text>>

split_into_sentences(raw) ==
    LET text == NormalizeWhitespace(raw) IN
    IF Len(text) = 0 THEN <<>>
    ELSE LET scan == ScanSentences(text, 0, 0, <<>>)
             remaining == Strip(Slice(text, scan.current_start, Len(text)))
             found == IF scan.current_start < Len(text) /\ Len(remaining) > 0
                      THEN Append(scan.sentences, remaining)
                      ELSE scan.sentences
             paragraphs == SplitParagraphs(text, 0, 0)
             sentences == IF Len(found) <= 1 /\ Len(text) > ParagraphFallbackLen
                             /\ Len(paragraphs) > 1
                          THEN StripNonEmpty(paragraphs)
                          ELSE found
         IN IF Len(sentences) > 0 THEN sentences ELSE <<text>>

(***************************************************************************)
(* State.                                                                  *)
(*                                                                         *)
(* A sentence held in a Python list is a reference to one str object of    *)
(* the list split_into_sentences returned: [id |-> its position in that    *)
(* list, text |-> its characters].                                         *)
(***************************************************************************)
VARIABLES
    \* chunk_text_by_sentences: arguments
    text, target_chunk_size, overlap_size,
    \* chunk_text_by_sentences: locals
    sentences, sentence_idx, current_chunk_sentences, current_length, chunks,
    \* the sentence list every emitted chunk was joined from (history)
    chunk_log,
    \* position of the call: "call", "loop", "returned"
    chunk_pc,
    \* expand_query: argument, the completion service's reply, the module
    \* global _client, the returned list, the position of the call
    query, completion, _client, expanded, expand_pc,
    \* calculate_confidence: arguments, result, position of the call
    avg_similarity, num_chunks, answer_length, contains_citation,
    confidence_level, conf_pc,
    \* submit_query / retrieve: the stage of the request
    q_pc,
    \* retrieve: arguments top_k and similarity_threshold, request.max_chunks
    top_k, similarity_threshold, max_chunks,
    \* retrieve: locals
    query_variations, var_idx, all_results, best_vector_scores,
    vector_results, lex_idx, combined_bm25_scores,
    vector_ranks, bm25_ranks, fused_scores,
    \* every (chunk id, score) pair a vector search returned (history)
    observed,
    \* per candidate, the largest ranking-model score given so far (history)
    lexical_max,
    \* submit_query: candidates (retrieve's result), chunks (the reranker's
    \* result), the generated answer and the response
    candidates, reranked_chunks, generated, response,
    \* the rows submit_query has committed to the queries table
    query_records,
    \* the scores and the number of calls of the cross-encoder (history)
    ce_scores, ce_calls,
    \* upload_document: position of the handler, the stored file's extension,
    \* the page break positions of the extracted text
    up_pc, file_ext, page_breaks,
    \* the document record: processing_status and num_pages (0 is None)
    doc_status, num_pages,
    \* process_document: the index i of the storing loop, the chunk records
    \* added to the session, the committed chunk records, the points of the
    \* vector index
    store_idx, session_chunks, db_chunks, index_points,
    \* the module globals _model (embeddings.py) and _cross_encoder
    \* (reranker.py); _client (query_expander.py) is declared above
    _model, _cross_encoder,
    \* per caller and handle, the position inside the get_... function
    lazy_pc,
    \* per handle, how many times its constructor has returned (history)
    constructions,
    \* the per-variation result lists, the order they are merged in and the
    \* merged result
    merge_lists, merge_order, merge_result

chunk_vars ==
    <<text, target_chunk_size, overlap_size, sentences, sentence_idx,
      current_chunk_sentences, current_length, chunks, chunk_log, chunk_pc>>

expand_vars == <<query, completion, _client, expanded, expand_pc>>

conf_vars ==
    <<avg_similarity, num_chunks, answer_length, contains_citation,
      confidence_level, conf_pc>>

retrieve_vars ==
    <<top_k, similarity_threshold, query_variations, var_idx, all_results,
      best_vector_scores, vector_results, lex_idx, combined_bm25_scores,
      vector_ranks, bm25_ranks, fused_scores, observed, lexical_max>>

submit_vars ==
    <<max_chunks, candidates, reranked_chunks, generated, response,
      query_records, ce_scores, ce_calls>>

query_vars == <<q_pc, retrieve_vars, submit_vars>>

upload_vars ==
    <<up_pc, file_ext, page_breaks, doc_status, num_pages, store_idx,
      session_chunks, db_chunks, index_points>>

lazy_vars == <<_model, _cross_encoder, lazy_pc, constructions>>

merge_vars == <<merge_lists, merge_order, merge_result>>

\* the state of document upload, of the lazily built handles and of the
\* merge of search results
aside_vars == <<upload_vars, lazy_vars, merge_vars>>

\* everything but the chunker's state
not_chunk_vars == <<expand_vars, conf_vars, query_vars, aside_vars>>

\* everything but the query expander's state
not_expand_vars == <<chunk_vars, conf_vars, query_vars, aside_vars>>

\* everything but the confidence estimator's state
not_conf_vars == <<chunk_vars, expand_vars, query_vars, aside_vars>>

vars == <<chunk_vars, expand_vars, conf_vars, query_vars, aside_vars>>

(***************************************************************************)
(* The chunker: DocumentProcessor.chunk_text_by_sentences.                 *)
(***************************************************************************)
\* the texts of a list of sentence references
Texts(sents) == [k \in 1..Len(sents) |-> sents[k].text]

\* references to the elements of a list of strings
Refs(strs) == [k \in 1..Len(strs) |-> [id |-> k, text |-> strs[k]]]

\* sum(len(s) for s in sents) + len(sents) - 1
JoinedLen(sents) == SumLen(Texts(sents)) + Len(sents) - 1

\* the for loop of _get_overlap_sentences over reversed(sentences), from the
\* k-th sentence down
RECURSIVE OverlapFrom(_, _, _, _, _)
OverlapFrom(sents, k, overlap, total_len, max_overlap_chars) ==
    IF k < 1 THEN overlap
    ELSE LET sentence_len == Len(sents[k].text) + (IF Len(overlap) > 0 THEN 1 ELSE 0) IN
         IF total_len + sentence_len > max_overlap_chars THEN overlap
         ELSE OverlapFrom(sents, k - 1, <<sents[k]>> \o overlap,
                          total_len + sentence_len, max_overlap_chars)

\* _get_overlap_sentences counting no separator between the sentences
RECURSIVE OverlapFromNoSeparator(_, _, _, _, _)
OverlapFromNoSeparator(sents, k, overlap, total_len, max_overlap_chars) ==
    IF k < 1 THEN overlap
    ELSE LET sentence_len == Len(sents[k].text) IN
         IF total_len + sentence_len > max_overlap_chars THEN overlap
         ELSE OverlapFromNoSeparator(sents, k - 1, <<sents[k]>> \o overlap,
                                     total_len + sentence_len, max_overlap_chars)

_get_overlap_sentences_no_separator(sents, max_overlap_chars) ==
    OverlapFromNoSeparator(sents, Len(sents), <<>>, 0, max_overlap_chars)

_get_overlap_sentences(sents, max_overlap_chars) ==
    OverlapFrom(sents, Len(sents), <<>>, 0, max_overlap_chars)

\* the pieces input texts are built from
Pieces == { <<"1", ".", " ">>, <<".">>, <<"a">>, <<"1">>, <<"\n">> }

RECURSIVE TextsOfPieces(_)
TextsOfPieces(n) ==
    IF n = 0 THEN { <<>> }
    ELSE LET shorter == TextsOfPieces(n - 1)
         IN shorter \cup { t \o p : t \in shorter, p \in Pieces }

InputTexts == TextsOfPieces(MaxPieces)

ChunkIdle ==
    /\ text = <<>>
    /\ target_chunk_size = 0
    /\ overlap_size = 0
    /\ sentences = <<>>
    /\ sentence_idx = 0
    /\ current_chunk_sentences = <<>>
    /\ current_length = 0
    /\ chunks = <<>>
    /\ chunk_log = <<>>
    /\ chunk_pc = "idle"

ExpandIdle ==
    /\ query = <<>>
    /\ completion = [kind |-> "none", content |-> <<>>]
    /\ _client = "None"
    /\ expanded = <<>>
    /\ expand_pc = "idle"

ConfIdle ==
    /\ avg_similarity = [num |-> 0, den |-> 1]
    /\ num_chunks = 0
    /\ answer_length = 0
    /\ contains_citation = FALSE
    /\ confidence_level = "none"
    /\ conf_pc = "idle"

RetrieveIdle ==
    /\ top_k = 0
    /\ similarity_threshold = 0
    /\ query_variations = <<>>
    /\ var_idx = 0
    /\ all_results = <<>>
    /\ best_vector_scores = <<>>
    /\ vector_results = <<>>
    /\ lex_idx = 0
    /\ combined_bm25_scores = <<>>
    /\ vector_ranks = <<>>
    /\ bm25_ranks = <<>>
    /\ fused_scores = <<>>
    /\ observed = {}
    /\ lexical_max = <<>>

SubmitIdle ==
    /\ max_chunks = 0
    /\ candidates = <<>>
    /\ reranked_chunks = <<>>
    /\ generated = [answer |-> <<>>, confidence |-> "none"]
    /\ response = [answer |-> <<>>, confidence |-> "none", sources |-> <<>>]
    /\ query_records = <<>>
    /\ ce_scores = <<>>
    /\ ce_calls = 0

QueryIdle ==
    /\ RetrieveIdle
    /\ SubmitIdle
    /\ q_pc = "idle"

UploadIdle ==
    /\ up_pc = "idle"
    /\ file_ext = ""
    /\ page_breaks = <<>>
    /\ doc_status = "none"
    /\ num_pages = 0
    /\ store_idx = 0
    /\ session_chunks = <<>>
    /\ db_chunks = <<>>
    /\ index_points = {}

LazyIdle ==
    /\ _model = "None"
    /\ _cross_encoder = "None"
    /\ lazy_pc = <<>>
    /\ constructions = <<>>

MergeIdle ==
    /\ merge_lists = <<>>
    /\ merge_order = <<>>
    /\ merge_result = [all_results |-> <<>>, best_vector_scores |-> <<>>]

AsideIdle ==
    /\ UploadIdle
    /\ LazyIdle
    /\ MergeIdle

InitChunk ==
    /\ AsideIdle
    /\ ExpandIdle
    /\ ConfIdle
    /\ QueryIdle
    /\ text \in InputTexts
    /\ target_chunk_size \in 1..MaxTarget
    /\ overlap_size \in 0..MaxOverlap
    /\ sentences = <<>>
    /\ sentence_idx = 0
    /\ current_chunk_sentences = <<>>
    /\ current_length = 0
    /\ chunks = <<>>
    /\ chunk_log = <<>>
    /\ chunk_pc = "call"

\* sentences = split_into_sentences(text); if not sentences: return []
ChunkReturnEmpty ==
    /\ chunk_pc = "call"
    /\ Len(split_into_sentences(text)) = 0
    /\ sentences' = <<>>
    /\ chunk_pc' = "returned"
    /\ UNCHANGED <<text, target_chunk_size, overlap_size, sentence_idx,
                   current_chunk_sentences, current_length, chunks, chunk_log>>
    /\ UNCHANGED not_chunk_vars

\* if total_len <= target_chunk_size: return [" ".join(sentences)]
ChunkReturnWhole ==
    /\ chunk_pc = "call"
    /\ LET split == Refs(split_into_sentences(text)) IN
       /\ Len(split) > 0
       /\ JoinedLen(split) <= target_chunk_size
       /\ sentences' = split
       /\ chunks' = <<Join(Texts(split), <<" ">>)>>
       /\ chunk_log' = <<split>>
    /\ chunk_pc' = "returned"
    /\ UNCHANGED <<text, target_chunk_size, overlap_size, sentence_idx,
                   current_chunk_sentences, current_length>>
    /\ UNCHANGED not_chunk_vars

\* otherwise the packing loop is entered
ChunkEnterLoop ==
    /\ chunk_pc = "call"
    /\ LET split == Refs(split_into_sentences(text)) IN
       /\ Len(split) > 0
       /\ JoinedLen(split) > target_chunk_size
       /\ sentences' = split
    /\ chunk_pc' = "loop"
    /\ UNCHANGED <<text, target_chunk_size, overlap_size, sentence_idx,
                   current_chunk_sentences, current_length, chunks, chunk_log>>
    /\ UNCHANGED not_chunk_vars

\* loop body, sentence_len > target_chunk_size: the sentence is its own chunk
ChunkOversized ==
    /\ chunk_pc = "loop"
    /\ sentence_idx < Len(sentences)
    /\ LET sentence == sentences[sentence_idx + 1] IN
       /\ Len(sentence.text) > target_chunk_size
       /\ chunks' =
            (IF Len(current_chunk_sentences) > 0
             THEN Append(chunks, Join(Texts(current_chunk_sentences), <<" ">>))
             ELSE chunks) \o <<sentence.text>>
       /\ chunk_log' =
            (IF Len(current_chunk_sentences) > 0
             THEN Append(chunk_log, current_chunk_sentences)
             ELSE chunk_log) \o << <<sentence>> >>
    /\ current_chunk_sentences' = <<>>
    /\ current_length' = 0
    /\ sentence_idx' = sentence_idx + 1
    /\ UNCHANGED <<text, target_chunk_size, overlap_size, sentences, chunk_pc>>
    /\ UNCHANGED not_chunk_vars

\* loop body, new_length > target_chunk_size and current_chunk_sentences:
\* flush, then seed the next chunk with the overlap
ChunkFlush ==
    /\ chunk_pc = "loop"
    /\ sentence_idx < Len(sentences)
    /\ LET sentence == sentences[sentence_idx + 1]
           new_length == current_length + Len(sentence.text)
                           + (IF Len(current_chunk_sentences) > 0 THEN 1 ELSE 0)
           overlap_sentences ==
               _get_overlap_sentences(current_chunk_sentences, overlap_size)
       IN
       /\ Len(sentence.text) <= target_chunk_size
       /\ new_length > target_chunk_size
       /\ Len(current_chunk_sentences) > 0
       /\ chunks' = Append(chunks, Join(Texts(current_chunk_sentences), <<" ">>))
       /\ chunk_log' = Append(chunk_log, current_chunk_sentences)
       /\ current_chunk_sentences' = overlap_sentences \o <<sentence>>
       /\ current_length' = JoinedLen(overlap_sentences \o <<sentence>>)
    /\ sentence_idx' = sentence_idx + 1
    /\ UNCHANGED <<text, target_chunk_size, overlap_size, sentences, chunk_pc>>
    /\ UNCHANGED not_chunk_vars

\* loop body, else branch: the sentence joins the current chunk
ChunkAppend ==
    /\ chunk_pc = "loop"
    /\ sentence_idx < Len(sentences)
    /\ LET sentence == sentences[sentence_idx + 1]
           new_length == current_length + Len(sentence.text)
                           + (IF Len(current_chunk_sentences) > 0 THEN 1 ELSE 0)
       IN
       /\ Len(sentence.text) <= target_chunk_size
       /\ ~(new_length > target_chunk_size /\ Len(current_chunk_sentences) > 0)
       /\ current_chunk_sentences' = Append(current_chunk_sentences, sentence)
       /\ current_length' = new_length
    /\ sentence_idx' = sentence_idx + 1
    /\ UNCHANGED <<text, target_chunk_size, overlap_size, sentences, chunks,
                   chunk_log, chunk_pc>>
    /\ UNCHANGED not_chunk_vars

\* the return without the flush of the last chunk
ChunkFinishForgetsLast ==
    /\ chunk_pc = "loop"
    /\ sentence_idx = Len(sentences)
    /\ chunk_pc' = "returned"
    /\ UNCHANGED <<text, target_chunk_size, overlap_size, sentences, sentence_idx,
                   current_chunk_sentences, current_length, chunks, chunk_log>>
    /\ UNCHANGED not_chunk_vars

\* after the loop: the last chunk, then return chunks
ChunkFinish ==
    /\ chunk_pc = "loop"
    /\ sentence_idx = Len(sentences)
    /\ chunks' =
         IF Len(current_chunk_sentences) > 0
         THEN Append(chunks, Join(Texts(current_chunk_sentences), <<" ">>))
         ELSE chunks
    /\ chunk_log' =
         IF Len(current_chunk_sentences) > 0
         THEN Append(chunk_log, current_chunk_sentences)
         ELSE chunk_log
    /\ chunk_pc' = "returned"
    /\ UNCHANGED <<text, target_chunk_size, overlap_size, sentences, sentence_idx,
                   current_chunk_sentences, current_length>>
    /\ UNCHANGED not_chunk_vars

NextChunk ==
    \/ ChunkReturnEmpty
    \/ ChunkReturnWhole
    \/ ChunkEnterLoop
    \/ ChunkOversized
    \/ ChunkFlush
    \/ ChunkAppend
    \/ ChunkFinish

SpecChunk == InitChunk /\ [][NextChunk]_vars

(***************************************************************************)
(* Properties of the chunker.                                              *)
(***************************************************************************)
\* a chunk made of exactly one sentence that alone exceeds the target size
IsOversizedAlone(sents) ==
    Len(sents) = 1 /\ Len(sents[1].text) > target_chunk_size

\* C1: every chunk returned by chunk_text_by_sentences is non-empty and no
\* longer than the target size, unless it consists of exactly one sentence
\* that alone exceeds the target size.
C1_ChunkWithinTarget ==
    \A n \in 1..Len(chunks) :
        /\ Len(chunks[n]) > 0
        /\ \/ Len(chunks[n]) <= target_chunk_size
           \/ IsOversizedAlone(chunk_log[n])

\* the sentences of chunk next that chunk prev holds too
ReusedPositions(prev, next) ==
    { k \in 1..Len(next) : \E j \in 1..Len(prev) : prev[j].id = next[k].id }

\* C2: the sentences chunk n+1 reuses from chunk n are the leading sentences
\* of chunk n+1 and a contiguous suffix of chunk n, their joined length is at
\* most the overlap size, and nothing is reused from a chunk made of one
\* oversized sentence.
C2_OverlapBounded ==
    \A n \in 1..(Len(chunk_log) - 1) :
        LET prev == chunk_log[n]
            next == chunk_log[n + 1]
            r == Cardinality(ReusedPositions(prev, next))
        IN /\ r <= Len(prev)
           /\ SubSeq(next, 1, r) = SubSeq(prev, Len(prev) - r + 1, Len(prev))
           /\ r > 0 => JoinedLen(SubSeq(next, 1, r)) <= overlap_size
           /\ IsOversizedAlone(prev) => r = 0

\* C2 witness: the call returned a chunk that starts with two sentences
\* carried over from its predecessor.
C2_Witness ==
    /\ chunk_pc = "returned"
    /\ \E n \in 1..(Len(chunk_log) - 1) :
          Cardinality(ReusedPositions(chunk_log[n], chunk_log[n + 1])) = 2

\* C3 as stated: for any non-empty text and target size >= its length the
\* result is the one chunk holding the whitespace-normalised text.
C3_WholeTextAnyNonEmpty ==
    (chunk_pc = "returned" /\ Len(text) > 0 /\ target_chunk_size >= Len(text))
        => chunks = <<NormalizeWhitespace(text)>>

HasNonSpace(s) == \E k \in 1..Len(s) : ~IsSpace(s[k])

\* C3 amended: for any text with at least one non-whitespace character and
\* target size >= its length the result is the one chunk holding the
\* whitespace-normalised text.
C3_WholeText ==
    (chunk_pc = "returned" /\ HasNonSpace(text) /\ target_chunk_size >= Len(text))
        => chunks = <<NormalizeWhitespace(text)>>

\* C3 witness: a text of several sentences whose whitespace was collapsed
\* came back as one chunk.
C3_Witness ==
    /\ chunk_pc = "returned"
    /\ target_chunk_size >= Len(text)
    /\ Len(sentences) >= 2
    /\ Len(chunks) = 1
    /\ chunks[1] # text

(***************************************************************************)
(* Query expansion: query_expander.py.                                     *)
(*                                                                         *)
(* The reply of the completion service is a sequence of tokens: brackets,  *)
(* commas, JSON string literals, number literals and prose.                *)
(***************************************************************************)
LBracket == [t |-> "[", v |-> <<>>]

RBracket == [t |-> "]", v |-> <<>>]

Comma == [t |-> ",", v |-> <<>>]

Prose == [t |-> "prose", v |-> <<>>]

NumberLit == [t |-> "num", v |-> <<>>]

StringLit(v) == [t |-> "str", v |-> v]

JsonString(v) == [type |-> "str", v |-> v, items |-> <<>>]

JsonNumber == [type |-> "num", v |-> <<>>, items |-> <<>>]

JsonList(items) == [type |-> "list", v |-> <<>>, items |-> items]

ParseError == [ok |-> FALSE, val |-> JsonNumber, next |-> 0]

\* the JSON grammar over tokens: value ::= string | number | array,
\* array ::= "[" "]" | "[" value ("," value)* "]"
RECURSIVE ParseValue(_, _), ParseItems(_, _, _)
ParseValue(toks, i) ==
    IF i > Len(toks) THEN ParseError
    ELSE IF toks[i].t = "str"
    THEN [ok |-> TRUE, val |-> JsonString(toks[i].v), next |-> i + 1]
    ELSE IF toks[i].t = "num"
    THEN [ok |-> TRUE, val |-> JsonNumber, next |-> i + 1]
    ELSE IF toks[i].t = "["
    THEN IF i + 1 <= Len(toks) /\ toks[i + 1].t = "]"
         THEN [ok |-> TRUE, val |-> JsonList(<<>>), next |-> i + 2]
         ELSE ParseItems(toks, i + 1, <<>>)
    ELSE ParseError

ParseItems(toks, i, acc) ==
    LET item == ParseValue(toks, i) IN
    IF ~item.ok \/ item.next > Len(toks) THEN ParseError
    ELSE IF toks[item.next].t = ","
    THEN ParseItems(toks, item.next + 1, Append(acc, item.val))
    ELSE IF toks[item.next].t = "]"
    THEN [ok |-> TRUE, val |-> JsonList(Append(acc, item.val)), next |-> item.next + 1]
    ELSE ParseError

\* json.loads: one value and nothing after it
json_loads(toks) ==
    LET r == ParseValue(toks, 1) IN
    IF r.ok /\ r.next = Len(toks) + 1 THEN r ELSE ParseError

\* re.search(r"\[.*\]", content, re.DOTALL): from the first "[" to the last
\* "]" after it; <<>> when there is no match
RegexSearchArray(content) ==
    LET opens == { k \in 1..Len(content) : content[k].t = "[" } IN
    IF opens = {} THEN <<>>
    ELSE LET first == CHOOSE k \in opens : \A j \in opens : k <= j
             closes == { k \in (first + 1)..Len(content) : content[k].t = "]" }
         IN IF closes = {} THEN <<>>
            ELSE SubSeq(content, first, CHOOSE k \in closes : \A j \in closes : j <= k)

\* alternatives[:2]
FirstTwo(items) == SubSeq(items, 1, Min(2, Len(items)))

\* [alt for alt in alts if alt.lower() != query.lower()]
RECURSIVE KeepDifferent(_, _)
KeepDifferent(alts, q) ==
    IF Len(alts) = 0 THEN <<>>
    ELSE IF Lower(alts[1].v) # Lower(q) THEN <<alts[1].v>> \o KeepDifferent(Tail(alts), q)
    ELSE KeepDifferent(Tail(alts), q)

\* expand_query where the filter runs over all alternatives, not the first two
expand_query_no_limit(q, reply) ==
    IF reply.kind = "raises" THEN <<q>>
    ELSE LET match == RegexSearchArray(reply.content) IN
         IF Len(match) = 0 THEN <<q>>
         ELSE LET alternatives == json_loads(match) IN
              IF ~alternatives.ok THEN <<q>>
              ELSE IF ~(alternatives.val.type = "list"
                         /\ Len(alternatives.val.items) >= 1) THEN <<q>>
              ELSE IF \E k \in 1..Len(alternatives.val.items) :
                          alternatives.val.items[k].type # "str"
                   THEN <<q>>
              ELSE <<q>> \o KeepDifferent(alternatives.val.items, q)

\* the try block of expand_query and its fall-through: what is returned for
\* a reply of the completion service (an exception or a content)
expand_query(q, reply) ==
    IF reply.kind = "raises" THEN <<q>>
    ELSE LET match == RegexSearchArray(reply.content) IN
         IF Len(match) = 0 THEN <<q>>
         ELSE LET alternatives == json_loads(match) IN
              \* json.loads raises: caught
              IF ~alternatives.ok THEN <<q>>
              ELSE IF ~(alternatives.val.type = "list"
                         /\ Len(alternatives.val.items) >= 1) THEN <<q>>
              \* alt.lower() on a value that is no string raises: caught
              ELSE IF \E k \in 1..Len(FirstTwo(alternatives.val.items)) :
                          alternatives.val.items[k].type # "str"
                   THEN <<q>>
              ELSE <<q>> \o KeepDifferent(FirstTwo(alternatives.val.items), q)

\* the pieces completion replies are built from
ReplyPieces ==
    { <<LBracket>>, <<RBracket>>, <<Prose>>,
      <<StringLit(<<"a">>)>>, <<StringLit(<<"Q">>)>>,
      <<Comma, StringLit(<<"b">>)>>, <<Comma, NumberLit>> }

RECURSIVE RepliesOfPieces(_)
RepliesOfPieces(n) ==
    IF n = 0 THEN { <<>> }
    ELSE LET shorter == RepliesOfPieces(n - 1)
         IN shorter \cup { t \o p : t \in shorter, p \in ReplyPieces }

ReplyContents == RepliesOfPieces(MaxReplyPieces)

Queries == { <<"q">>, <<"a">> }

InitExpand ==
    /\ AsideIdle
    /\ ChunkIdle
    /\ ConfIdle
    /\ QueryIdle
    /\ query \in Queries
    /\ completion = [kind |-> "none", content |-> <<>>]
    /\ _client \in {"None", "Groq"}
    /\ expanded = <<>>
    /\ expand_pc = "call"

\* get_groq_client(): the client exists, or Groq(...) constructs it
ExpandGetClient ==
    /\ expand_pc = "call"
    /\ _client' = "Groq"
    /\ expand_pc' = "try"
    /\ UNCHANGED <<query, completion, expanded>>
    /\ UNCHANGED not_expand_vars

\* get_groq_client(): Groq(...) raises; the call is outside the try block
ExpandClientRaises ==
    /\ expand_pc = "call"
    /\ _client = "None"
    /\ expand_pc' = "raised"
    /\ UNCHANGED <<query, completion, _client, expanded>>
    /\ UNCHANGED not_expand_vars

\* client.chat.completions.create(...) raises: except Exception, return [query]
ExpandCompletionRaises ==
    /\ expand_pc = "try"
    /\ completion' = [kind |-> "raises", content |-> <<>>]
    /\ expanded' = expand_query(query, completion')
    /\ expand_pc' = "returned"
    /\ UNCHANGED <<query, _client>>
    /\ UNCHANGED not_expand_vars

\* client.chat.completions.create(...) returns a content
ExpandCompletionReturns ==
    /\ expand_pc = "try"
    /\ \E content \in ReplyContents :
          completion' = [kind |-> "content", content |-> content]
    /\ expanded' = expand_query(query, completion')
    /\ expand_pc' = "returned"
    /\ UNCHANGED <<query, _client>>
    /\ UNCHANGED not_expand_vars

NextExpand ==
    \/ ExpandGetClient
    \/ ExpandClientRaises
    \/ ExpandCompletionRaises
    \/ ExpandCompletionReturns

SpecExpand == InitExpand /\ [][NextExpand]_vars

(***************************************************************************)
(* Properties of query expansion.                                          *)
(***************************************************************************)
\* the array json.loads extracts from the reply, <<>> when there is none
ExtractedArray(reply) ==
    IF reply.kind # "content" THEN <<>>
    ELSE LET parsed == json_loads(RegexSearchArray(reply.content))
         IN IF parsed.ok /\ parsed.val.type = "list" THEN parsed.val.items ELSE <<>>

\* C9: whenever expand_query returns, the result starts with the original
\* query, has at most 3 elements, and every later element is one of the
\* first two entries of the array extracted from the reply and differs from
\* the query case-insensitively.
C9_ExpansionShape ==
    expand_pc = "returned" =>
        /\ Len(expanded) >= 1
        /\ expanded[1] = query
        /\ Len(expanded) <= 3
        /\ \A k \in 2..Len(expanded) :
              /\ \E j \in 1..Min(2, Len(ExtractedArray(completion))) :
                    ExtractedArray(completion)[j] = JsonString(expanded[k])
              /\ Lower(expanded[k]) # Lower(query)

\* C9 witness: an array of three entries came back; of its first two, the one
\* equal to the query up to case was dropped and the other kept.
C9_Witness ==
    /\ expand_pc = "returned"
    /\ Len(ExtractedArray(completion)) = 3
    /\ Len(expanded) = 2
    /\ \E j \in 1..2 : Lower(ExtractedArray(completion)[j].v) = Lower(query)

\* a failure inside the try block: the completion call raises, no array is
\* found, the array is malformed or empty, or one of its first two entries
\* is no string
ExpansionFailed(reply) ==
    \/ reply.kind = "raises"
    \/ /\ reply.kind = "content"
       /\ \/ Len(ExtractedArray(reply)) = 0
          \/ \E k \in 1..Min(2, Len(ExtractedArray(reply))) :
                ExtractedArray(reply)[k].type # "str"

\* C10: expand_query never raises to its caller, and after any failure it
\* returns exactly [query].
C10_NeverRaises ==
    /\ expand_pc # "raised"
    /\ (expand_pc = "returned" /\ ExpansionFailed(completion)) => expanded = <<query>>

\* C10, the part the code keeps: a failure inside the try block yields [query]
C10_FailureInsideTryFallsBack ==
    (expand_pc = "returned" /\ ExpansionFailed(completion)) => expanded = <<query>>

(***************************************************************************)
(* Floating-point values are modelled as exact fractions num/den, den > 0. *)
(***************************************************************************)
RECURSIVE GCD(_, _)
GCD(a, b) == IF b = 0 THEN a ELSE GCD(b, a % b)

Rat(n, d) == LET g == GCD(IF n < 0 THEN -n ELSE n, d) IN [num |-> n \div g, den |-> d \div g]

RatAdd(a, b) ==
    LET l == (a.den \div GCD(a.den, b.den)) * b.den
    IN Rat(a.num * (l \div a.den) + b.num * (l \div b.den), l)

RatMulInt(a, k) == Rat(a.num * k, a.den)

RatDivInt(a, k) == LET g == GCD(IF a.num < 0 THEN -a.num ELSE a.num, k)
                   IN [num |-> a.num \div g, den |-> a.den * (k \div g)]

RatLt(a, b) == a.num * b.den < b.num * a.den

RatLe(a, b) == a.num * b.den <= b.num * a.den

RatMin(a, b) == IF RatLe(a, b) THEN a ELSE b

RECURSIVE RatSum(_)
RatSum(rs) == IF Len(rs) = 0 THEN Rat(0, 1) ELSE RatAdd(rs[1], RatSum(Tail(rs)))

RECURSIVE Pow(_, _)
Pow(b, n) == IF n = 0 THEN 1 ELSE b * Pow(b, n - 1)

(***************************************************************************)
(* Confidence estimation: AnswerGenerator.calculate_confidence.            *)
(***************************************************************************)
\* the thresholds 0.7 and 0.55
HighSimilarity == [num |-> 7, den |-> 10]

MediumSimilarity == [num |-> 55, den |-> 100]

\* calculate_confidence with >= in place of > on the similarity thresholds
calculate_confidence_inclusive(avg, n, length, citation) ==
    IF RatLe(HighSimilarity, avg) /\ n >= 3 /\ citation THEN "high"
    ELSE IF RatLe(MediumSimilarity, avg) /\ n >= 2 THEN "medium"
    ELSE "low"

calculate_confidence(avg, n, length, citation) ==
    IF RatLt(HighSimilarity, avg) /\ n >= 3 /\ citation THEN "high"
    ELSE IF RatLt(MediumSimilarity, avg) /\ n >= 2 THEN "medium"
    ELSE "low"

\* average similarities tried: the hundredths from 0.00 to 1.00
Hundredths == { [num |-> h, den |-> 100] : h \in 0..100 }

InitConfidence ==
    /\ AsideIdle
    /\ ChunkIdle
    /\ ExpandIdle
    /\ QueryIdle
    /\ avg_similarity \in Hundredths
    /\ num_chunks \in 0..MaxConfidenceChunks
    /\ answer_length \in {0, 40}
    /\ contains_citation \in BOOLEAN
    /\ confidence_level = "none"
    /\ conf_pc = "call"

ConfidenceCalculate ==
    /\ conf_pc = "call"
    /\ confidence_level' = calculate_confidence(avg_similarity, num_chunks,
                                                answer_length, contains_citation)
    /\ conf_pc' = "returned"
    /\ UNCHANGED <<avg_similarity, num_chunks, answer_length, contains_citation>>
    /\ UNCHANGED not_conf_vars

NextConfidence == ConfidenceCalculate

SpecConfidence == InitConfidence /\ [][NextConfidence]_vars

(***************************************************************************)
(* Properties of confidence estimation.                                    *)
(***************************************************************************)
\* avg_similarity, in hundredths
AvgHundredths == (avg_similarity.num * 100) \div avg_similarity.den

HighCase == AvgHundredths > 70 /\ num_chunks >= 3 /\ contains_citation

MediumCase == ~HighCase /\ AvgHundredths > 55 /\ num_chunks >= 2

\* C7: the tiers are applied in order without overlap: HIGH iff average > 0.70
\* and count >= 3 and a citation is present, otherwise MEDIUM iff average >
\* 0.55 and count >= 2, otherwise LOW; zero candidates are always LOW; and
\* the three literal cases hold.
C7_ConfidenceTiers ==
    conf_pc = "returned" =>
        /\ confidence_level \in {"high", "medium", "low"}
        /\ confidence_level = "high" <=> HighCase
        /\ confidence_level = "medium" <=> MediumCase
        /\ confidence_level = "low" <=> (~HighCase /\ ~MediumCase)
        /\ num_chunks = 0 => confidence_level = "low"
        /\ (AvgHundredths = 80 /\ num_chunks = 3 /\ contains_citation)
              => confidence_level = "high"
        /\ (AvgHundredths = 60 /\ num_chunks = 2 /\ ~contains_citation)
              => confidence_level = "medium"
        /\ (AvgHundredths = 30 /\ num_chunks = 1) => confidence_level = "low"

\* C7 witness: an input that meets the MEDIUM conditions as well as the HIGH
\* ones was labelled HIGH.
C7_Witness ==
    /\ conf_pc = "returned"
    /\ AvgHundredths = 80
    /\ num_chunks = 3
    /\ contains_citation
    /\ confidence_level = "high"

(***************************************************************************)
(* Dual-channel retrieval and rank fusion: RetrieverService.retrieve.      *)
(*                                                                         *)
(* Vector scores are similarities in hundredths.  A dict is the sequence   *)
(* of its keys in insertion order and a function on those keys.            *)
(***************************************************************************)
ChunkIds == 1..MaxChunkIds

\* similarities the vector index reports
VectorScoreLevels == {30, 65, 80}

\* values tried for the similarity_threshold argument (0.35 is the default)
Thresholds == {35, 65}

\* scores the ranking model (BM25Okapi.get_scores) reports
BM25Levels == {-1, 0, 2}

\* the pool size submit_query asks retrieve for
CANDIDATE_POOL_SIZE == 20

\* values tried for the top_k argument of retrieve
TopKs == {1, 2, CANDIDATE_POOL_SIZE}

\* the payload the index stores with a chunk id
PayloadOf(id) ==
    [document_id |-> 100 + id, document_name |-> "doc.pdf",
     page_number |-> id, text_content |-> <<"chunk", id>>]

Range(seq) == { seq[k] : k \in 1..Len(seq) }

\* a search result: hits with distinct ids, ranked by descending score
RECURSIVE HitListsOfLen(_)
HitListsOfLen(n) ==
    IF n = 0 THEN { <<>> }
    ELSE { Append(x[1], [id |-> x[2], score |-> x[3]]) :
             x \in { y \in HitListsOfLen(n - 1) \X ChunkIds \X VectorScoreLevels :
                       /\ \A k \in 1..Len(y[1]) : y[1][k].id # y[2]
                       /\ Len(y[1]) > 0 => y[3] <= y[1][Len(y[1])].score } }

HitLists == UNION { HitListsOfLen(n) : n \in 0..MaxChunkIds }

\* dict.get(key, default)
Get(f, key, default) == IF key \in DOMAIN f THEN f[key] ELSE default

\* d[key] = value
Put(f, key, value) ==
    [k \in DOMAIN f \cup {key} |-> IF k = key THEN value ELSE f[k]]

\* the merge loop where a later score replaces the recorded one
RECURSIVE MergeHitsKeepLast(_, _, _, _)
MergeHitsKeepLast(ids, best, hits, k) ==
    IF k > Len(hits) THEN [all_results |-> ids, best_vector_scores |-> best]
    ELSE LET r == hits[k] IN
         IF r.id \notin Range(ids)
         THEN MergeHitsKeepLast(Append(ids, r.id), Put(best, r.id, r.score), hits, k + 1)
         ELSE MergeHitsKeepLast(ids, Put(best, r.id, r.score), hits, k + 1)

\* the merge loop where the first score seen for a chunk id is never raised
RECURSIVE MergeHitsKeepFirst(_, _, _, _)
MergeHitsKeepFirst(ids, best, hits, k) ==
    IF k > Len(hits) THEN [all_results |-> ids, best_vector_scores |-> best]
    ELSE LET r == hits[k] IN
         IF r.id \notin Range(ids)
         THEN MergeHitsKeepFirst(Append(ids, r.id), Put(best, r.id, r.score), hits, k + 1)
         ELSE MergeHitsKeepFirst(ids, best, hits, k + 1)

\* for r in results: keep the result and the best vector score per chunk id
RECURSIVE MergeHits(_, _, _, _)
MergeHits(ids, best, hits, k) ==
    IF k > Len(hits) THEN [all_results |-> ids, best_vector_scores |-> best]
    ELSE LET r == hits[k] IN
         IF r.id \notin Range(ids)
         THEN MergeHits(Append(ids, r.id), Put(best, r.id, r.score), hits, k + 1)
         ELSE MergeHits(ids, Put(best, r.id, Max(best[r.id], r.score)), hits, k + 1)

\* the filter with a strict comparison
RECURSIVE FilterIdsStrict(_, _, _)
FilterIdsStrict(ids, best, threshold) ==
    IF Len(ids) = 0 THEN <<>>
    ELSE IF best[ids[1]] > threshold
    THEN <<ids[1]>> \o FilterIdsStrict(Tail(ids), best, threshold)
    ELSE FilterIdsStrict(Tail(ids), best, threshold)

\* [cid for cid, score in best_vector_scores.items() if score >= threshold]
RECURSIVE FilterIds(_, _, _)
FilterIds(ids, best, threshold) ==
    IF Len(ids) = 0 THEN <<>>
    ELSE IF best[ids[1]] >= threshold
    THEN <<ids[1]>> \o FilterIds(Tail(ids), best, threshold)
    ELSE FilterIds(Tail(ids), best, threshold)

\* sorted(seq, key=..., reverse=True): Before(a, b) says a's key is greater;
\* the sort is stable, elements of equal key keep their order
StableSortDesc(seq, Before(_, _)) ==
    LET n == Len(seq)
        pos(i) == 1 + Cardinality({ j \in 1..n : Before(seq[j], seq[i]) })
                    + Cardinality({ j \in 1..(i - 1) :
                                      ~Before(seq[j], seq[i]) /\ ~Before(seq[i], seq[j]) })
    IN [p \in 1..n |-> seq[CHOOSE i \in 1..n : pos(i) = p]]

\* ranks counted from 1
RanksFromOne(seq) == [x \in Range(seq) |-> CHOOSE k \in 1..Len(seq) : seq[k] = x]

\* {x: rank for rank, x in enumerate(seq)}
RanksOf(seq) == [x \in Range(seq) |-> (CHOOSE k \in 1..Len(seq) : seq[k] = x) - 1]

\* the fusion constant
rrf_k == 60

\* the fusion formula with ranks counted from -1
rrf_score_early_rank(vector_rank, bm25_rank) ==
    RatAdd(Rat(1, rrf_k + vector_rank - 1), Rat(1, rrf_k + bm25_rank - 1))

\* rrf_score = (1 / (rrf_k + vector_rank)) + (1 / (rrf_k + bm25_rank))
rrf_score(vector_rank, bm25_rank) ==
    RatAdd(Rat(1, rrf_k + vector_rank), Rat(1, rrf_k + bm25_rank))

\* similarity=min(fused_scores[doc_id] * 30, 1.0)
FusionSimilarity(fused) == RatMin(RatMulInt(fused, 30), Rat(1, 1))

RetrievedChunk(id, similarity) ==
    [chunk_id |-> id,
     document_id |-> PayloadOf(id).document_id,
     document_name |-> PayloadOf(id).document_name,
     page_number |-> PayloadOf(id).page_number,
     text_content |-> PayloadOf(id).text_content,
     similarity |-> similarity]

\* replies of the completion service tried inside a query request
PipelineReplies ==
    { [kind |-> "raises", content |-> <<>>],
      [kind |-> "content",
       content |-> <<LBracket, StringLit(<<"Q">>), RBracket>>],
      [kind |-> "content",
       content |-> <<LBracket, StringLit(<<"a">>), RBracket>>],
      [kind |-> "content",
       content |-> <<LBracket, StringLit(<<"a">>), Comma, StringLit(<<"b">>), RBracket>>] }

InitQuery ==
    /\ AsideIdle
    /\ ChunkIdle
    /\ ConfIdle
    /\ RetrieveIdle
    /\ SubmitIdle
    /\ query = <<"q">>
    /\ completion = [kind |-> "none", content |-> <<>>]
    /\ _client \in {"None", "Groq"}
    /\ expanded = <<>>
    /\ expand_pc = "idle"
    /\ q_pc = "received"

\* retrieve is entered with its similarity_threshold argument;
\* query_variations = expand_query(query)
QExpand ==
    /\ q_pc = "received"
    /\ \E reply \in PipelineReplies :
          query_variations' = expand_query(query, reply)
    /\ similarity_threshold' \in Thresholds
    /\ _client' = "Groq"
    /\ q_pc' = "expanded"
    /\ UNCHANGED <<top_k, var_idx, all_results,
                   best_vector_scores, vector_results, lex_idx,
                   combined_bm25_scores, vector_ranks, bm25_ranks, fused_scores,
                   observed, lexical_max>>
    /\ UNCHANGED submit_vars
    /\ UNCHANGED <<query, completion, expanded, expand_pc>>
    /\ UNCHANGED <<chunk_vars, conf_vars, aside_vars>>

\* expand_query raises out of get_groq_client: the request fails
QExpandRaises ==
    /\ q_pc = "received"
    /\ _client = "None"
    /\ q_pc' = "failed"
    /\ UNCHANGED <<retrieve_vars, submit_vars>>
    /\ UNCHANGED <<chunk_vars, expand_vars, conf_vars, aside_vars>>

\* query_embeddings = embed_texts(query_variations)
QEmbed ==
    /\ q_pc = "expanded"
    /\ q_pc' = "searching"
    /\ UNCHANGED <<retrieve_vars, submit_vars>>
    /\ UNCHANGED <<chunk_vars, expand_vars, conf_vars, aside_vars>>

\* embed_texts raises: the embedding model is unavailable
QEmbedRaises ==
    /\ q_pc = "expanded"
    /\ q_pc' = "failed"
    /\ UNCHANGED <<retrieve_vars, submit_vars>>
    /\ UNCHANGED <<chunk_vars, expand_vars, conf_vars, aside_vars>>

\* one turn of the loop over the query variations: search, then merge
QSearch ==
    /\ q_pc = "searching"
    /\ var_idx < Len(query_variations)
    /\ \E results \in HitLists :
          LET merged == MergeHits(all_results, best_vector_scores, results, 1) IN
          /\ all_results' = merged.all_results
          /\ best_vector_scores' = merged.best_vector_scores
          /\ observed' = observed \cup { <<results[k].id, results[k].score>> :
                                           k \in 1..Len(results) }
    /\ var_idx' = var_idx + 1
    /\ UNCHANGED <<q_pc, top_k, similarity_threshold, query_variations, vector_results,
                   lex_idx, combined_bm25_scores, vector_ranks, bm25_ranks,
                   fused_scores, lexical_max>>
    /\ UNCHANGED submit_vars
    /\ UNCHANGED <<chunk_vars, expand_vars, conf_vars, aside_vars>>

\* vector_store.search raises: the index is unavailable
QSearchRaises ==
    /\ q_pc = "searching"
    /\ var_idx < Len(query_variations)
    /\ q_pc' = "failed"
    /\ UNCHANGED <<retrieve_vars, submit_vars>>
    /\ UNCHANGED <<chunk_vars, expand_vars, conf_vars, aside_vars>>

\* the return of retrieve: the result goes to the caller, the locals end
RetrieveReturns(k, result) ==
    /\ top_k' = k
    /\ candidates' = result
    /\ similarity_threshold' = 0
    /\ query_variations' = <<>>
    /\ var_idx' = 0
    /\ all_results' = <<>>
    /\ best_vector_scores' = <<>>
    /\ vector_results' = <<>>
    /\ lex_idx' = 0
    /\ combined_bm25_scores' = <<>>
    /\ vector_ranks' = <<>>
    /\ bm25_ranks' = <<>>
    /\ fused_scores' = <<>>
    /\ observed' = {}
    /\ lexical_max' = <<>>
    /\ q_pc' = "retrieve_returned"
    /\ UNCHANGED <<max_chunks, reranked_chunks, generated, response,
                   query_records, ce_scores, ce_calls>>
    /\ UNCHANGED <<chunk_vars, expand_vars, conf_vars, aside_vars>>

\* if not all_results: return []
QNoResults ==
    /\ q_pc = "searching"
    /\ var_idx = Len(query_variations)
    /\ Len(all_results) = 0
    /\ \E k \in TopKs : RetrieveReturns(k, <<>>)

\* the threshold filter leaves nothing: return []
QFilteredOut ==
    /\ q_pc = "searching"
    /\ var_idx = Len(query_variations)
    /\ Len(all_results) > 0
    /\ Len(FilterIds(all_results, best_vector_scores, similarity_threshold)) = 0
    /\ \E k \in TopKs : RetrieveReturns(k, <<>>)

\* the threshold filter, the sort by best vector score and the start of the
\* lexical channel: combined_bm25_scores = [0.0] * len(vector_results)
QFilter ==
    /\ q_pc = "searching"
    /\ var_idx = Len(query_variations)
    /\ Len(all_results) > 0
    /\ LET filtered_ids ==
               FilterIds(all_results, best_vector_scores, similarity_threshold)
       IN /\ Len(filtered_ids) > 0
          /\ vector_results' =
                StableSortDesc(filtered_ids,
                               LAMBDA a, b : best_vector_scores[a] > best_vector_scores[b])
          /\ combined_bm25_scores' = [k \in 1..Len(filtered_ids) |-> 0]
    /\ lex_idx' = 0
    /\ q_pc' = "lexical"
    /\ UNCHANGED <<top_k, similarity_threshold, query_variations, var_idx, all_results,
                   best_vector_scores, vector_ranks, bm25_ranks, fused_scores,
                   observed, lexical_max>>
    /\ UNCHANGED submit_vars
    /\ UNCHANGED <<chunk_vars, expand_vars, conf_vars, aside_vars>>

\* one turn of the loop over the query variations: bm25.get_scores, then
\* the maximum per candidate
QLexical ==
    /\ q_pc = "lexical"
    /\ lex_idx < Len(query_variations)
    /\ \E scores \in [1..Len(vector_results) -> BM25Levels] :
          /\ combined_bm25_scores' =
                [i \in 1..Len(vector_results) |-> Max(combined_bm25_scores[i], scores[i])]
          /\ lexical_max' =
                IF lex_idx = 0 THEN scores
                ELSE [i \in 1..Len(vector_results) |-> Max(lexical_max[i], scores[i])]
    /\ lex_idx' = lex_idx + 1
    \* the record of the search hits is needed up to the merge only
    /\ observed' = {}
    /\ UNCHANGED <<q_pc, top_k, similarity_threshold, query_variations, var_idx,
                   all_results, best_vector_scores, vector_results, vector_ranks,
                   bm25_ranks, fused_scores>>
    /\ UNCHANGED submit_vars
    /\ UNCHANGED <<chunk_vars, expand_vars, conf_vars, aside_vars>>

\* the two rank lists and the fused score of every candidate
QFuse ==
    /\ q_pc = "lexical"
    /\ lex_idx = Len(query_variations)
    /\ LET n == Len(vector_results)
           ranks == RanksOf(vector_results)
           bm25_ranked_indices ==
               StableSortDesc([i \in 1..n |-> i],
                              LAMBDA a, b : combined_bm25_scores[a] > combined_bm25_scores[b])
           lex == [id \in Range(vector_results) |->
                     (CHOOSE r \in 1..n :
                         vector_results[bm25_ranked_indices[r]] = id) - 1]
       IN /\ vector_ranks' = ranks
          /\ bm25_ranks' = lex
          /\ fused_scores' =
                [id \in Range(vector_results) |->
                    rrf_score(Get(ranks, id, n), Get(lex, id, n))]
    /\ q_pc' = "fused"
    /\ UNCHANGED <<top_k, similarity_threshold, query_variations, var_idx,
                   all_results, best_vector_scores, vector_results, lex_idx,
                   combined_bm25_scores, observed, lexical_max>>
    /\ UNCHANGED submit_vars
    /\ UNCHANGED <<chunk_vars, expand_vars, conf_vars, aside_vars>>

\* the return of retrieve with the candidates in ascending fused score
QRetrieveReturnAscending ==
    /\ q_pc = "fused"
    /\ \E k \in TopKs :
          LET sorted_ids ==
                  StableSortDesc(vector_results,
                                 LAMBDA a, b : RatLt(fused_scores[a], fused_scores[b]))
              kept == SubSeq(sorted_ids, 1, Min(k, Len(sorted_ids)))
          IN RetrieveReturns(k, [i \in 1..Len(kept) |->
                 RetrievedChunk(kept[i], FusionSimilarity(fused_scores[kept[i]]))])

\* the sort by fused score, the cut at top_k and the result list
QRetrieveReturn ==
    /\ q_pc = "fused"
    /\ \E k \in TopKs :
          LET sorted_ids ==
                  StableSortDesc(vector_results,
                                 LAMBDA a, b : RatLt(fused_scores[b], fused_scores[a]))
              kept == SubSeq(sorted_ids, 1, Min(k, Len(sorted_ids)))
          IN RetrieveReturns(k, [i \in 1..Len(kept) |->
                 RetrievedChunk(kept[i], FusionSimilarity(fused_scores[kept[i]]))])

(***************************************************************************)
(* Reranking: rerank_chunks.  Answer generation: AnswerGenerator.generate. *)
(* The request handler: submit_query.                                      *)
(***************************************************************************)
\* request.max_chunks is at least 1 (QueryRequest); the largest value tried
MaxRequestChunks == 3

\* scores the cross-encoder (model.predict) reports
CrossEncoderLevels == {-2, 0, 2}

\* the literal 2.718281828, as a fraction
EulerLiteral == [num |-> 193, den |-> 71]

\* the normalisation without the "1 +" of the denominator
sigmoid_without_one(score) ==
    IF score >= 0
    THEN Rat(Pow(EulerLiteral.num, score), Pow(EulerLiteral.den, score))
    ELSE Rat(Pow(EulerLiteral.den, -score), Pow(EulerLiteral.num, -score))

\* normalized_score = 1 / (1 + 2.718281828 ** (-score))
sigmoid(score) ==
    IF score >= 0
    THEN Rat(Pow(EulerLiteral.num, score),
             Pow(EulerLiteral.num, score) + Pow(EulerLiteral.den, score))
    ELSE Rat(Pow(EulerLiteral.den, -score),
             Pow(EulerLiteral.den, -score) + Pow(EulerLiteral.num, -score))

\* RetrievedChunk(chunk_id=chunk.chunk_id, ..., similarity=normalized_score)
Rescored(chunk, score) ==
    [chunk_id |-> chunk.chunk_id,
     document_id |-> chunk.document_id,
     document_name |-> chunk.document_name,
     page_number |-> chunk.page_number,
     text_content |-> chunk.text_content,
     similarity |-> sigmoid(score)]

\* the scoring path without the sort: the first k chunks, normalised
ScoreAndCutUnsorted(cs, k, scores) ==
    [i \in 1..Min(k, Len(cs)) |-> Rescored(cs[i], scores[i])]

\* the scoring path of rerank_chunks: sort by score, cut, normalise
ScoreAndCut(cs, k, scores) ==
    LET order == StableSortDesc([i \in 1..Len(cs) |-> i],
                                LAMBDA a, b : scores[a] > scores[b])
        kept == SubSeq(order, 1, Min(k, Len(order)))
    IN [i \in 1..Len(kept) |-> Rescored(cs[kept[i]], scores[kept[i]])]

\* a reranker that scores whatever it is given
rerank_chunks_always_scores(cs, k, scores) ==
    [result |-> ScoreAndCut(cs, k, scores), model_called |-> TRUE]

\* rerank_chunks(query, chunks, top_k); scores is what model.predict gives
\* if it is called
rerank_chunks(cs, k, scores) ==
    IF Len(cs) = 0 THEN [result |-> <<>>, model_called |-> FALSE]
    ELSE IF Len(cs) <= 1 THEN [result |-> cs, model_called |-> FALSE]
    ELSE [result |-> ScoreAndCut(cs, k, scores), model_called |-> TRUE]

\* the scores model.predict may give for a candidate list: one per pair
PredictedScores(cs) == [1..Len(cs) -> CrossEncoderLevels]

\* "Not sure based on available information."
NoEvidenceAnswer ==
    <<"N", "o", "t", " ", "s", "u", "r", "e", " ", "b", "a", "s", "e", "d",
      " ", "o", "n", " ", "a", "v", "a", "i", "l", "a", "b", "l", "e", " ",
      "i", "n", "f", "o", "r", "m", "a", "t", "i", "o", "n", ".">>

\* "I don't have enough information to answer that."
GenerateFallbackAnswer ==
    <<"I", " ", "d", "o", "n", "'", "t", " ", "h", "a", "v", "e", " ", "e",
      "n", "o", "u", "g", "h", " ", "i", "n", "f", "o", "r", "m", "a", "t",
      "i", "o", "n", " ", "t", "o", " ", "a", "n", "s", "w", "e", "r", " ",
      "t", "h", "a", "t", ".">>

\* message.content of the completion: None, plain text, text with a citation
AnswerContents ==
    { <<>>,
      <<"o", "k">>,
      <<"o", "k", " ", "[", "1", "]">> }

Contains(s, c) == \E k \in 1..Len(s) : s[k] = c

Similarities(cs) == [k \in 1..Len(cs) |-> cs[k].similarity]

\* sum(c.similarity for c in chunks) / len(chunks) if chunks else 0
AverageSimilarity(cs) ==
    IF Len(cs) = 0 THEN Rat(0, 1)
    ELSE RatDivInt(RatSum(Similarities(cs)), Len(cs))

\* AnswerGenerator.generate, given message.content of the completion
generate(content, cs) ==
    LET answer == IF Len(content) = 0 THEN GenerateFallbackAnswer ELSE content
        citation == Contains(answer, "[") /\ Contains(answer, "]")
    IN [answer |-> answer,
        confidence |-> calculate_confidence(AverageSimilarity(cs), Len(cs),
                                            Len(answer), citation)]

SourceResponse(chunk) ==
    [document_id |-> chunk.document_id,
     document_name |-> chunk.document_name,
     page_number |-> chunk.page_number,
     excerpt |-> chunk.text_content,
     similarity_score |-> chunk.similarity]

\* chunks = rerank_chunks(query, candidates, top_k=request.max_chunks), after
\* retrieve(query, top_k=CANDIDATE_POOL_SIZE)
QRerank ==
    /\ q_pc = "retrieve_returned"
    /\ top_k = CANDIDATE_POOL_SIZE
    /\ \E m \in 1..MaxRequestChunks, scores \in PredictedScores(candidates) :
          LET r == rerank_chunks(candidates, m, scores) IN
          /\ max_chunks' = m
          /\ reranked_chunks' = r.result
          /\ ce_calls' = IF r.model_called THEN ce_calls + 1 ELSE ce_calls
          /\ ce_scores' = IF r.model_called THEN scores ELSE <<>>
    /\ q_pc' = "reranked"
    /\ UNCHANGED <<candidates, generated, response, query_records>>
    /\ UNCHANGED retrieve_vars
    /\ UNCHANGED <<chunk_vars, expand_vars, conf_vars, aside_vars>>

\* get_cross_encoder or model.predict raises: nothing catches it
QRerankRaises ==
    /\ q_pc = "retrieve_returned"
    /\ top_k = CANDIDATE_POOL_SIZE
    /\ Len(candidates) > 1
    /\ \E m \in 1..MaxRequestChunks : max_chunks' = m
    /\ ce_calls' = ce_calls + 1
    /\ q_pc' = "failed"
    /\ UNCHANGED <<candidates, reranked_chunks, generated, response,
                   query_records, ce_scores>>
    /\ UNCHANGED retrieve_vars
    /\ UNCHANGED <<chunk_vars, expand_vars, conf_vars, aside_vars>>

\* a handler without the "if not chunks" branch: the empty list goes on to
\* answer generation
QNoEvidenceGenerates ==
    /\ q_pc = "reranked"
    /\ Len(reranked_chunks) = 0
    /\ \E content \in AnswerContents :
          generated' = generate(content, reranked_chunks)
    /\ q_pc' = "scored"
    /\ UNCHANGED <<max_chunks, candidates, reranked_chunks, response,
                   query_records, ce_scores, ce_calls>>
    /\ UNCHANGED retrieve_vars
    /\ UNCHANGED <<chunk_vars, expand_vars, conf_vars, aside_vars>>

\* if not chunks: store the query and answer with the sentinel
QNoEvidence ==
    /\ q_pc = "reranked"
    /\ Len(reranked_chunks) = 0
    /\ query_records' =
          Append(query_records,
                 [answer_text |-> NoEvidenceAnswer, confidence_level |-> "low",
                  num_chunks_retrieved |-> 0, avg_similarity_score |-> Rat(0, 1),
                  sources |-> <<>>])
    /\ response' = [answer |-> NoEvidenceAnswer, confidence |-> "low",
                    sources |-> <<>>]
    /\ q_pc' = "answered"
    /\ UNCHANGED <<max_chunks, candidates, reranked_chunks, generated, ce_scores,
                   ce_calls>>
    /\ UNCHANGED retrieve_vars
    /\ UNCHANGED <<chunk_vars, expand_vars, conf_vars, aside_vars>>

\* a handler that answers with the generated text without the confidence
\* step
QGenerateUnscored ==
    /\ q_pc = "reranked"
    /\ Len(reranked_chunks) > 0
    /\ \E content \in AnswerContents :
          response' = [answer |-> content, confidence |-> "low",
                       sources |-> [k \in 1..Len(reranked_chunks) |->
                                       SourceResponse(reranked_chunks[k])]]
    /\ q_pc' = "answered"
    /\ UNCHANGED <<max_chunks, candidates, reranked_chunks, generated,
                   query_records, ce_scores, ce_calls>>
    /\ UNCHANGED retrieve_vars
    /\ UNCHANGED <<chunk_vars, expand_vars, conf_vars, aside_vars>>

\* generated = await generator.generate(query, chunks)
QGenerate ==
    /\ q_pc = "reranked"
    /\ Len(reranked_chunks) > 0
    /\ \E content \in AnswerContents :
          generated' = generate(content, reranked_chunks)
    /\ q_pc' = "scored"
    /\ UNCHANGED <<max_chunks, candidates, reranked_chunks, response,
                   query_records, ce_scores, ce_calls>>
    /\ UNCHANGED retrieve_vars
    /\ UNCHANGED <<chunk_vars, expand_vars, conf_vars, aside_vars>>

\* the completion call of generate raises: nothing catches it
QGenerateRaises ==
    /\ q_pc = "reranked"
    /\ Len(reranked_chunks) > 0
    /\ q_pc' = "failed"
    /\ UNCHANGED submit_vars
    /\ UNCHANGED retrieve_vars
    /\ UNCHANGED <<chunk_vars, expand_vars, conf_vars, aside_vars>>

\* store the query and its sources, build the response
QRespond ==
    /\ q_pc = "scored"
    /\ query_records' =
          Append(query_records,
                 [answer_text |-> generated.answer,
                  confidence_level |-> generated.confidence,
                  num_chunks_retrieved |-> Len(reranked_chunks),
                  avg_similarity_score |-> AverageSimilarity(reranked_chunks),
                  sources |-> [k \in 1..Len(reranked_chunks) |->
                                  [chunk_id |-> reranked_chunks[k].chunk_id,
                                   similarity_score |-> reranked_chunks[k].similarity]]])
    /\ response' = [answer |-> generated.answer,
                    confidence |-> generated.confidence,
                    sources |-> [k \in 1..Len(reranked_chunks) |->
                                    SourceResponse(reranked_chunks[k])]]
    /\ q_pc' = "answered"
    /\ UNCHANGED <<max_chunks, candidates, reranked_chunks, generated, ce_scores,
                   ce_calls>>
    /\ UNCHANGED retrieve_vars
    /\ UNCHANGED <<chunk_vars, expand_vars, conf_vars, aside_vars>>

NextQuery ==
    \/ QExpand
    \/ QExpandRaises
    \/ QEmbed
    \/ QEmbedRaises
    \/ QSearch
    \/ QSearchRaises
    \/ QNoResults
    \/ QFilteredOut
    \/ QFilter
    \/ QLexical
    \/ QFuse
    \/ QRetrieveReturn
    \/ QRerank
    \/ QRerankRaises
    \/ QNoEvidence
    \/ QGenerate
    \/ QGenerateRaises
    \/ QRespond

SpecQuery == InitQuery /\ [][NextQuery]_vars

(***************************************************************************)
(* Properties of retrieval, fusion and reranking.                          *)
(***************************************************************************)
NoDuplicates(seq) == \A i, j \in 1..Len(seq) : i # j => seq[i] # seq[j]

ChunkIdsOf(cs) == [k \in 1..Len(cs) |-> cs[k].chunk_id]

\* the scores the vector searches have returned for a chunk id
ObservedScores(id) == { o[2] : o \in { x \in observed : x[1] = id } }

\* C4: while the search results of the variations are merged, every chunk
\* id seen so far is kept exactly once and the score recorded for it is the
\* largest one any search returned for it; neither the candidates that pass
\* the threshold nor the list retrieve returns holds a chunk id twice.
C4_MergeKeepsMaximum ==
    /\ q_pc = "searching" =>
          /\ NoDuplicates(all_results)
          /\ Range(all_results) = { o[1] : o \in observed }
          /\ DOMAIN best_vector_scores = Range(all_results)
          /\ \A id \in Range(all_results) :
                /\ best_vector_scores[id] \in ObservedScores(id)
                /\ \A sc \in ObservedScores(id) : sc <= best_vector_scores[id]
    /\ NoDuplicates(vector_results)
    /\ NoDuplicates(ChunkIdsOf(candidates))

\* a chunk id returned with 0.80 by one variation and with 0.65 by a later
\* one is recorded with 0.80
C4_Witness ==
    /\ q_pc = "searching"
    /\ var_idx >= 2
    /\ \E id \in Range(all_results) :
          /\ ObservedScores(id) = {65, 80}
          /\ best_vector_scores[id] = 80

\* C5: once the scores are fused, every candidate's fused score f satisfies
\* f = 1/(60 + vector_rank) + 1/(60 + lexical_rank), is strictly positive
\* and at most 2/60, and is exactly 2/60 for a candidate of rank 0 in both
\* channels.
C5_FusedScore ==
    q_pc = "fused" =>
        \A id \in Range(vector_results) :
            LET f == fused_scores[id]
                vr == vector_ranks[id]
                lr == bm25_ranks[id]
            IN /\ f.den > 0
               /\ f.num * (60 + vr) * (60 + lr) = f.den * ((60 + lr) + (60 + vr))
               /\ f.num > 0
               /\ f.num * 60 <= 2 * f.den
               /\ (vr = 0 /\ lr = 0) => f.num * 60 = 2 * f.den

\* fusion over several candidates, one of them first in both channels and
\* one of them first in neither
C5_Witness ==
    /\ q_pc = "fused"
    /\ Len(vector_results) >= 2
    /\ \E id \in Range(vector_results) : vector_ranks[id] = 0 /\ bm25_ranks[id] = 0
    /\ \E id \in Range(vector_results) : vector_ranks[id] > 0 /\ bm25_ranks[id] > 0

InUnitInterval(r) == r.den > 0 /\ 0 <= r.num /\ r.num <= r.den

\* C6: the similarity of every chunk handed back lies in [0,1]: in the list
\* retrieve returns, in the list the reranker returns and in the sources of
\* the response.
C6_SimilarityInUnitInterval ==
    /\ \A k \in 1..Len(candidates) : InUnitInterval(candidates[k].similarity)
    /\ \A k \in 1..Len(reranked_chunks) : InUnitInterval(reranked_chunks[k].similarity)
    /\ \A k \in 1..Len(response.sources) :
          InUnitInterval(response.sources[k].similarity_score)

\* a response whose sources carry reranker-derived similarities, one of
\* them from a positive and one from a negative cross-encoder score
C6_Witness ==
    /\ q_pc = "answered"
    /\ ce_calls = 1
    /\ Len(response.sources) >= 2
    /\ \E k \in 1..Len(ce_scores) : ce_scores[k] > 0
    /\ \E k \in 1..Len(ce_scores) : ce_scores[k] < 0
    /\ \E k \in 1..Len(response.sources) :
          RatLt(response.sources[k].similarity_score, Rat(1, 2))

\* a response whose single source went through the reranker unscored and
\* carries the fusion-derived similarity
C6_WitnessPassThrough ==
    /\ q_pc = "answered"
    /\ ce_calls = 0
    /\ Len(response.sources) = 1
    /\ response.sources[1].similarity_score = candidates[1].similarity

\* C8: with no candidate or one candidate the reranker returns its input as
\* it is and the cross-encoder is not called, whatever request.max_chunks is.
C8_RerankPassThrough ==
    (q_pc \in {"reranked", "scored", "answered"} /\ Len(candidates) <= 1) =>
        /\ reranked_chunks = candidates
        /\ ce_calls = 0
        /\ ce_scores = <<>>

\* one candidate has gone through the reranker with max_chunks above 1
C8_Witness ==
    /\ q_pc = "reranked"
    /\ Len(candidates) = 1
    /\ max_chunks > 1
    /\ reranked_chunks = candidates

(***************************************************************************)
(* Properties of the request handler's outcomes.                           *)
(***************************************************************************)
NoEvidenceResponse ==
    [answer |-> NoEvidenceAnswer, confidence |-> "low", sources |-> <<>>]

\* C11: a request whose retrieval returned no candidate takes exactly two
\* further steps: the reranker hands back the empty list without calling the
\* cross-encoder, and the handler then answers at once with the sentinel,
\* confidence LOW and no sources, without generating an answer.
C11_ZeroCandidatesNoEvidence ==
    [][ /\ (q_pc = "retrieve_returned" /\ top_k = CANDIDATE_POOL_SIZE
              /\ Len(candidates) = 0)
           => (q_pc' = "reranked" /\ reranked_chunks' = <<>> /\ ce_calls' = 0)
        /\ (q_pc = "reranked" /\ Len(candidates) = 0)
           => /\ q_pc' = "answered"
              /\ response' = NoEvidenceResponse
              /\ generated' = [answer |-> <<>>, confidence |-> "none"]
              /\ ce_calls' = 0 ]_vars

\* a request without candidates has been answered with the sentinel
C11_Witness ==
    /\ q_pc = "answered"
    /\ Len(candidates) = 0
    /\ ce_calls = 0
    /\ response = NoEvidenceResponse

\* C12: a request that has reached the reranker never fails there: a failure
\* of the cross-encoder is not passed on to the caller.
C12_RerankFailureNotSurfaced ==
    [][ q_pc = "retrieve_returned" => q_pc' # "failed" ]_vars

\* C13: a request with at least one chunk never fails in answer generation:
\* a failure of the completion service becomes a response with the sentinel.
C13_GenerationFailureRecovered ==
    [][ (q_pc = "reranked" /\ Len(reranked_chunks) > 0)
           => /\ q_pc' # "failed"
              /\ q_pc' \in {"scored", "answered"} ]_vars

(***************************************************************************)
(* Document ingestion: upload_document and process_document.               *)
(***************************************************************************)
\* the file types upload_document accepts
ALLOWED_EXTENSIONS == {".pdf", ".docx", ".txt"}

\* the text of one page (or one part) of an uploaded file
PageTexts ==
    { <<>>, <<" ">>, <<"a">>, <<"1", ".">>, <<"1", ".", " ", "1", ".">> }

RECURSIVE PageListsOfLen(_)
PageListsOfLen(n) ==
    IF n = 0 THEN { <<>> }
    ELSE { Append(ps, p) : ps \in PageListsOfLen(n - 1), p \in PageTexts }

\* the contents of an uploaded file, page by page
FileContents == UNION { PageListsOfLen(n) : n \in 0..MaxPages }

\* the values of settings.CHUNK_SIZE and settings.CHUNK_OVERLAP tried
ChunkSettings ==
    { [CHUNK_SIZE |-> 3, CHUNK_OVERLAP |-> 0],
      [CHUNK_SIZE |-> 4, CHUNK_OVERLAP |-> 2] }

\* extract_text_from_pdf: current_pos += len(page_text);
\* page_breaks.append(current_pos)
RECURSIVE PageBreaksOf(_, _)
PageBreaksOf(pages, current_pos) ==
    IF Len(pages) = 0 THEN <<>>
    ELSE <<current_pos + Len(pages[1])>>
           \o PageBreaksOf(Tail(pages), current_pos + Len(pages[1]))

\* the for loop of _get_page_for_position from the k-th break on
RECURSIVE PageFrom(_, _, _)
PageFrom(char_position, breaks, k) ==
    IF k > Len(breaks) THEN Len(breaks)
    ELSE IF char_position < breaks[k] THEN k
    ELSE PageFrom(char_position, breaks, k + 1)

\* _get_page_for_position; 0 stands for None
_get_page_for_position(char_position, breaks) ==
    IF Len(breaks) = 0 THEN 0 ELSE PageFrom(char_position, breaks, 1)

\* the chunk record and the index point process_document builds for chunk i
ChunkRecord(i) ==
    [id |-> i + 1,
     chunk_index |-> i,
     page_number |->
        _get_page_for_position(i * (target_chunk_size - overlap_size), page_breaks),
     text_content |-> chunks[i + 1],
     embedding_id |-> i + 1]

IndexPoint(i) ==
    [id |-> i + 1,
     chunk_index |-> i,
     page_number |->
        _get_page_for_position(i * (target_chunk_size - overlap_size), page_breaks),
     text_content |-> chunks[i + 1]]

InitUpload ==
    /\ ChunkIdle
    /\ ExpandIdle
    /\ ConfIdle
    /\ QueryIdle
    /\ LazyIdle
    /\ MergeIdle
    /\ up_pc = "pending"
    /\ file_ext \in ALLOWED_EXTENSIONS
    /\ page_breaks = <<>>
    /\ doc_status = "pending"
    /\ num_pages = 0
    /\ store_idx = 0
    /\ session_chunks = <<>>
    /\ db_chunks = <<>>
    /\ index_points = {}

upload_frame == <<expand_vars, conf_vars, query_vars, lazy_vars, merge_vars>>

\* process_document: the text is extracted and chunk_text_by_sentences is
\* called with the configured sizes
UploadExtract ==
    /\ up_pc = "pending"
    /\ \E pages \in FileContents, cfg \in ChunkSettings :
          /\ text' = Join(pages, <<"\n", "\n">>)
          /\ page_breaks' = IF file_ext = ".pdf" THEN PageBreaksOf(pages, 0) ELSE <<>>
          /\ target_chunk_size' = cfg.CHUNK_SIZE
          /\ overlap_size' = cfg.CHUNK_OVERLAP
    /\ chunk_pc' = "call"
    /\ up_pc' = "chunking"
    /\ UNCHANGED <<sentences, sentence_idx, current_chunk_sentences,
                   current_length, chunks, chunk_log>>
    /\ UNCHANGED <<file_ext, doc_status, num_pages, store_idx, session_chunks,
                   db_chunks, index_points>>
    /\ UNCHANGED upload_frame

\* the extraction raises; upload_document's except branch records the failure
UploadExtractRaises ==
    /\ up_pc = "pending"
    /\ doc_status' = "failed"
    /\ up_pc' = "done"
    /\ UNCHANGED <<file_ext, page_breaks, num_pages, store_idx, session_chunks,
                   db_chunks, index_points>>
    /\ UNCHANGED chunk_vars
    /\ UNCHANGED upload_frame

\* if not chunks: return; upload_document then records the outcome
UploadNoChunks ==
    /\ up_pc = "chunking"
    /\ chunk_pc = "returned"
    /\ Len(chunks) = 0
    /\ doc_status' = "processed"
    /\ up_pc' = "done"
    /\ UNCHANGED <<file_ext, page_breaks, num_pages, store_idx, session_chunks,
                   db_chunks, index_points>>
    /\ UNCHANGED chunk_vars
    /\ UNCHANGED upload_frame

\* embeddings = embed_texts(chunks)
UploadEmbed ==
    /\ up_pc = "chunking"
    /\ chunk_pc = "returned"
    /\ Len(chunks) > 0
    /\ store_idx' = 0
    /\ up_pc' = "storing"
    /\ UNCHANGED <<file_ext, page_breaks, doc_status, num_pages, session_chunks,
                   db_chunks, index_points>>
    /\ UNCHANGED chunk_vars
    /\ UNCHANGED upload_frame

\* embed_texts raises; the except branch records the failure
UploadEmbedRaises ==
    /\ up_pc = "chunking"
    /\ chunk_pc = "returned"
    /\ Len(chunks) > 0
    /\ doc_status' = "failed"
    /\ up_pc' = "done"
    /\ UNCHANGED <<file_ext, page_breaks, num_pages, store_idx, session_chunks,
                   db_chunks, index_points>>
    /\ UNCHANGED chunk_vars
    /\ UNCHANGED upload_frame

\* a turn of the storing loop that adds the chunk record and skips the upsert
UploadStoreChunkWithoutPoint ==
    /\ up_pc = "storing"
    /\ store_idx < Len(chunks)
    /\ session_chunks' = Append(session_chunks, ChunkRecord(store_idx))
    /\ store_idx' = store_idx + 1
    /\ UNCHANGED <<up_pc, file_ext, page_breaks, doc_status, num_pages, db_chunks,
                   index_points>>
    /\ UNCHANGED chunk_vars
    /\ UNCHANGED upload_frame

\* one turn of the storing loop: db.add(db_chunk), vector_store.upsert(...)
UploadStoreChunk ==
    /\ up_pc = "storing"
    /\ store_idx < Len(chunks)
    /\ session_chunks' = Append(session_chunks, ChunkRecord(store_idx))
    /\ index_points' = index_points \cup { IndexPoint(store_idx) }
    /\ store_idx' = store_idx + 1
    /\ UNCHANGED <<up_pc, file_ext, page_breaks, doc_status, num_pages, db_chunks>>
    /\ UNCHANGED chunk_vars
    /\ UNCHANGED upload_frame

\* vector_store.upsert raises after db.add; the except branch sets the
\* status and commits the session, the added chunk records with it
UploadUpsertRaises ==
    /\ up_pc = "storing"
    /\ store_idx < Len(chunks)
    /\ session_chunks' = Append(session_chunks, ChunkRecord(store_idx))
    /\ db_chunks' = Append(session_chunks, ChunkRecord(store_idx))
    /\ doc_status' = "failed"
    /\ up_pc' = "done"
    /\ UNCHANGED <<file_ext, page_breaks, num_pages, store_idx, index_points>>
    /\ UNCHANGED chunk_vars
    /\ UNCHANGED upload_frame

\* after the loop: num_pages for a PDF, commit; upload_document then sets
\* the status and commits
UploadFinish ==
    /\ up_pc = "storing"
    /\ store_idx = Len(chunks)
    /\ num_pages' = IF file_ext = ".pdf" /\ Len(page_breaks) > 0
                    THEN Len(page_breaks) + 1
                    ELSE num_pages
    /\ db_chunks' = session_chunks
    /\ doc_status' = "processed"
    /\ up_pc' = "done"
    /\ UNCHANGED <<file_ext, page_breaks, store_idx, session_chunks, index_points>>
    /\ UNCHANGED chunk_vars
    /\ UNCHANGED upload_frame

\* embedding_ids = [chunk.embedding_id for chunk in chunks]
EmbeddingIds == { db_chunks[k].embedding_id : k \in 1..Len(db_chunks) }

\* delete_document: vector_store.delete removes the points of the committed
\* chunk records (it is not called when there are none), then the document
\* and, by cascade, its chunk records are deleted
DeleteDocument ==
    /\ up_pc = "done"
    /\ index_points' = { p \in index_points : p.id \notin EmbeddingIds }
    /\ db_chunks' = <<>>
    /\ session_chunks' = <<>>
    /\ doc_status' = "deleted"
    /\ up_pc' = "deleted"
    /\ UNCHANGED <<file_ext, page_breaks, num_pages, store_idx>>
    /\ UNCHANGED chunk_vars
    /\ UNCHANGED upload_frame

\* delete_document: vector_store.delete raises, "best effort deletion"
\* passes over it, and the document and its chunk records are deleted
DeleteDocumentStoreRaises ==
    /\ up_pc = "done"
    /\ EmbeddingIds # {}
    /\ db_chunks' = <<>>
    /\ session_chunks' = <<>>
    /\ doc_status' = "deleted"
    /\ up_pc' = "deleted"
    /\ UNCHANGED <<file_ext, page_breaks, num_pages, store_idx, index_points>>
    /\ UNCHANGED chunk_vars
    /\ UNCHANGED upload_frame

NextUpload ==
    \/ UploadExtract
    \/ UploadExtractRaises
    \/ ChunkReturnEmpty
    \/ ChunkReturnWhole
    \/ ChunkEnterLoop
    \/ ChunkOversized
    \/ ChunkFlush
    \/ ChunkAppend
    \/ ChunkFinish
    \/ UploadNoChunks
    \/ UploadEmbed
    \/ UploadEmbedRaises
    \/ UploadStoreChunk
    \/ UploadUpsertRaises
    \/ UploadFinish
    \/ DeleteDocument
    \/ DeleteDocumentStoreRaises

SpecUpload == InitUpload /\ [][NextUpload]_vars

\* C14: when the chunker has returned no chunk for an uploaded document,
\* the upload ends with nothing indexed for it and with its processing
\* status "failed".
C14_NoChunksMeansFailed ==
    (up_pc = "done" /\ chunk_pc = "returned" /\ Len(chunks) = 0) =>
        /\ index_points = {}
        /\ db_chunks = <<>>
        /\ doc_status = "failed"

(***************************************************************************)
(* The lazily built handles: get_embedding_model, get_cross_encoder and    *)
(* get_groq_client.  Each is "if handle is None: handle = Class(...)";     *)
(* none takes a lock, so callers on different threads interleave between   *)
(* the test and the assignment.                                            *)
(***************************************************************************)
Callers == 1..MaxCallers

Handles == {"_model", "_cross_encoder", "_client"}

\* the class whose instance a handle holds
ClassOf(h) ==
    CASE h = "_model" -> "SentenceTransformer"
      [] h = "_cross_encoder" -> "CrossEncoder"
      [] h = "_client" -> "Groq"

\* the value of a module global
HandleValue(h) ==
    CASE h = "_model" -> _model
      [] h = "_cross_encoder" -> _cross_encoder
      [] h = "_client" -> _client

\* global h; h = v
AssignHandle(h, v) ==
    /\ _model' = IF h = "_model" THEN v ELSE _model
    /\ _cross_encoder' = IF h = "_cross_encoder" THEN v ELSE _cross_encoder
    /\ _client' = IF h = "_client" THEN v ELSE _client

InitLazy ==
    /\ ChunkIdle
    /\ ExpandIdle
    /\ ConfIdle
    /\ QueryIdle
    /\ UploadIdle
    /\ MergeIdle
    /\ _model = "None"
    /\ _cross_encoder = "None"
    /\ lazy_pc = [c \in Callers |-> [handle |-> "none", at |-> "outside"]]
    /\ constructions = [h \in Handles |-> 0]

lazy_frame ==
    <<chunk_vars, conf_vars, query_vars, upload_vars, merge_vars, query,
      completion, expanded, expand_pc>>

\* a caller enters get_...: "if handle is None" is evaluated; a handle that
\* is set is returned at once
LazyTest(c, h) ==
    /\ lazy_pc[c].at = "outside"
    /\ lazy_pc' =
          IF HandleValue(h) = "None"
          THEN [lazy_pc EXCEPT ![c] = [handle |-> h, at |-> "saw_none"]]
          ELSE lazy_pc
    /\ UNCHANGED <<_model, _cross_encoder, _client, constructions>>
    /\ UNCHANGED lazy_frame

\* handle = Class(...): the constructor returns and the global is assigned
LazyConstruct(c) ==
    /\ lazy_pc[c].at = "saw_none"
    /\ AssignHandle(lazy_pc[c].handle, ClassOf(lazy_pc[c].handle))
    /\ constructions' =
          [constructions EXCEPT ![lazy_pc[c].handle] = constructions[lazy_pc[c].handle] + 1]
    /\ lazy_pc' = [lazy_pc EXCEPT ![c] = [handle |-> "none", at |-> "outside"]]
    /\ UNCHANGED lazy_frame

\* the constructor raises: the global stays None
LazyConstructRaises(c) ==
    /\ lazy_pc[c].at = "saw_none"
    /\ lazy_pc' = [lazy_pc EXCEPT ![c] = [handle |-> "none", at |-> "outside"]]
    /\ UNCHANGED <<_model, _cross_encoder, _client, constructions>>
    /\ UNCHANGED lazy_frame

NextLazy ==
    \/ \E c \in Callers, h \in Handles : LazyTest(c, h)
    \/ \E c \in Callers : LazyConstruct(c)
    \/ \E c \in Callers : LazyConstructRaises(c)

SpecLazy == InitLazy /\ [][NextLazy]_vars

\* C15: no handle is constructed more than once in a process, whatever the
\* interleaving of the callers that use it for the first time.
C15_ConstructedAtMostOnce ==
    \A h \in DOMAIN constructions : constructions[h] <= 1

(***************************************************************************)
(* The merge of the per-variation search results (the loop of retrieve     *)
(* over the query embeddings), applied to the same result lists in every   *)
(* order.                                                                  *)
(***************************************************************************)
\* result lists of at most one hit
ShortHitLists == HitListsOfLen(0) \cup HitListsOfLen(1)

\* the orders n result lists can be merged in
Orders(n) == { p \in [1..n -> 1..n] : \A i, j \in 1..n : i # j => p[i] # p[j] }

\* the loop over the result lists, taken in the given order, from the k-th on
RECURSIVE MergeAll(_, _, _, _)
MergeAll(lists, order, k, acc) ==
    IF k > Len(order) THEN acc
    ELSE MergeAll(lists, order, k + 1,
                  MergeHits(acc.all_results, acc.best_vector_scores, lists[order[k]], 1))

EmptyMerge == [all_results |-> <<>>, best_vector_scores |-> <<>>]

InitMerge ==
    /\ ChunkIdle
    /\ ExpandIdle
    /\ ConfIdle
    /\ QueryIdle
    /\ UploadIdle
    /\ LazyIdle
    /\ merge_lists \in ShortHitLists \X HitLists \X ShortHitLists
    /\ merge_order = <<>>
    /\ merge_result = EmptyMerge

\* the three result lists are merged in one of the possible orders
MergeInOrder ==
    /\ merge_order = <<>>
    /\ \E order \in Orders(3) :
          /\ merge_order' = order
          /\ merge_result' = MergeAll(merge_lists, order, 1, EmptyMerge)
    /\ UNCHANGED merge_lists
    /\ UNCHANGED <<chunk_vars, expand_vars, conf_vars, query_vars, upload_vars,
                   lazy_vars>>

NextMerge == MergeInOrder

SpecMerge == InitMerge /\ [][NextMerge]_vars

\* the scores the lists give for a chunk id
ListedScores(id) ==
    { sc \in VectorScoreLevels :
        \E l \in 1..Len(merge_lists) : \E k \in 1..Len(merge_lists[l]) :
            merge_lists[l][k].id = id /\ merge_lists[l][k].score = sc }

\* C16: in whatever order the result lists are merged, the merged chunk ids
\* are the ids that occur in some list and the score recorded for an id is
\* the largest score any list gives it; so every order gives the same ids
\* and the same scores as the order of the variations.
C16_MergeOrderIndependent ==
    merge_order # <<>> =>
        LET inorder == MergeAll(merge_lists, <<1, 2, 3>>, 1, EmptyMerge) IN
        /\ Range(merge_result.all_results) = Range(inorder.all_results)
        /\ Range(merge_result.all_results) = { id \in ChunkIds : ListedScores(id) # {} }
        /\ merge_result.best_vector_scores = inorder.best_vector_scores
        /\ \A id \in Range(merge_result.all_results) :
              /\ merge_result.best_vector_scores[id] \in ListedScores(id)
              /\ \A sc \in ListedScores(id) :
                    sc <= merge_result.best_vector_scores[id]

\* a chunk id with 0.65 in the first list and 0.80 in the last one, merged
\* last list first
C16_Witness ==
    /\ merge_order = <<3, 2, 1>>
    /\ \E id \in Range(merge_result.all_results) :
          /\ \E k \in 1..Len(merge_lists[1]) :
                merge_lists[1][k].id = id /\ merge_lists[1][k].score = 65
          /\ \E k \in 1..Len(merge_lists[3]) :
                merge_lists[3][k].id = id /\ merge_lists[3][k].score = 80
          /\ merge_result.best_vector_scores[id] = 80

(***************************************************************************)
(* The stages of a query request.                                          *)
(***************************************************************************)
\* a request whose retrieval gave no candidate
ShortCircuited ==
    q_pc \in {"retrieve_returned", "reranked", "answered"} /\ Len(candidates) = 0

\* the stage a request is in: 1 Received, 2 Expanded, 3 Retrieved (the
\* vector searches and the lexical scoring of their hits), 4 Fused,
\* 5 Reranked, 6 Scored, 7 Answered
StageRank ==
    CASE q_pc = "received" -> 1
      [] q_pc = "expanded" -> 2
      [] q_pc \in {"searching", "lexical"} -> 3
      [] q_pc \in {"fused", "retrieve_returned"} -> 4
      [] q_pc = "reranked" -> 5
      [] q_pc = "scored" -> 6
      [] q_pc = "answered" -> 7
      [] OTHER -> 0

\* C17: a step of a request that is neither short-circuited nor failing
\* stays in its stage or enters the next one of Received, Expanded,
\* Retrieved, Fused, Reranked, Scored, Answered; so the stages are passed in
\* that order, each entered once and none skipped or entered again.
C17_StagesInOrder ==
    [][ (q_pc' # "failed" /\ ~ShortCircuited')
           => /\ StageRank >= 1
              /\ StageRank' = StageRank \/ StageRank' = StageRank + 1 ]_vars

\* a request has been answered from at least one chunk
C17_Witness ==
    /\ q_pc = "answered"
    /\ Len(response.sources) > 0
    /\ generated.confidence \in {"high", "medium", "low"}

(***************************************************************************)
(* The similarity threshold of retrieve.                                   *)
(***************************************************************************)
\* the merged chunk ids whose best vector score reaches the threshold
Survivors ==
    { id \in Range(all_results) : best_vector_scores[id] >= similarity_threshold }

\* C20: once the searches are merged, the candidates retrieve goes on with
\* are exactly the chunks whose best score over all variations is at least
\* the threshold; the list it returns holds only such chunks; and when there
\* is none the call returns the empty list and does not fail.
C20_ThresholdOnBestScore ==
    [][ /\ q_pc' \in {"lexical", "fused"}
           => Range(vector_results') =
                { id \in Range(all_results') :
                    best_vector_scores'[id] >= similarity_threshold' }
        /\ (q_pc \in {"searching", "fused"} /\ q_pc' = "retrieve_returned")
           => \A k \in 1..Len(candidates') : candidates'[k].chunk_id \in Survivors
        /\ (q_pc = "searching" /\ var_idx = Len(query_variations) /\ Survivors = {})
           => (q_pc' = "retrieve_returned" /\ candidates' = <<>>) ]_vars

\* a chunk scored 0.30 by one variation and 0.65 by another has passed the
\* threshold 0.35
C20_Witness ==
    /\ q_pc = "lexical"
    /\ lex_idx = 0
    /\ similarity_threshold = 35
    /\ \E id \in Range(vector_results) : ObservedScores(id) = {30, 65}

(***************************************************************************)
(* Sentence detection inside the chunker.                                  *)
(***************************************************************************)
\* largest number of pieces of a text of words and marks
MaxSentencePieces == 4

\* words, a number, an opening bracket and sentence marks
SentencePieces ==
    { <<"D", "r">>, <<"a", "b">>, <<"A">>, <<"1">>, <<"(">>,
      <<".", " ">>, <<"?">>, <<".">> }

RECURSIVE TextsOfSentencePieces(_)
TextsOfSentencePieces(n) ==
    IF n = 0 THEN { <<>> }
    ELSE LET shorter == TextsOfSentencePieces(n - 1)
         IN shorter \cup { t \o p : t \in shorter, p \in SentencePieces }

DrLeeFirst ==
    <<"D", "r", ".", " ", "L", "e", "e", " ", "j", "o", "i", "n",
      "e", "d", " ", "i", "n", " ", "2", "0", "2", "0", ".">>

DrLeeSecond ==
    <<"S", "h", "e", " ", "l", "e", "a", "d", "s", " ", "t", "h",
      "e", " ", "r", "o", "b", "o", "t", "i", "c", "s", " ", "l",
      "a", "b", ".">>

DrLeeText == DrLeeFirst \o <<" ">> \o DrLeeSecond

\* two paragraphs without a sentence mark, separated by a blank line,
\* together longer than ParagraphFallbackLen
ParagraphOf(c) == [k \in 1..((ParagraphFallbackLen \div 2) + 1) |-> c]

ParagraphTexts ==
    { ParagraphOf("a") \o <<"\n", "\n">> \o ParagraphOf("b"),
      ParagraphOf("a") \o <<"\n", " ", "\n">> \o ParagraphOf("b") }

\* the calls of chunk_text_by_sentences: a text with its target chunk size
\* and overlap size
SentenceCalls ==
    { [text |-> t, target |-> 5, overlap |-> 2] :
         t \in TextsOfSentencePieces(MaxSentencePieces) }
    \cup { [text |-> DrLeeText, target |-> 40, overlap |-> 10] }
    \cup { [text |-> t, target |-> 150, overlap |-> 10] : t \in ParagraphTexts }

InitSentences ==
    /\ AsideIdle
    /\ ExpandIdle
    /\ ConfIdle
    /\ QueryIdle
    /\ \E call \in SentenceCalls :
          /\ text = call.text
          /\ target_chunk_size = call.target
          /\ overlap_size = call.overlap
    /\ sentences = <<>>
    /\ sentence_idx = 0
    /\ current_chunk_sentences = <<>>
    /\ current_length = 0
    /\ chunks = <<>>
    /\ chunk_log = <<>>
    /\ chunk_pc = "call"

SpecSentences == InitSentences /\ [][NextChunk]_vars

\* the letters that stand immediately before index i of t
WordBefore(t, i) ==
    LET start == CHOOSE b \in 0..i :
                    /\ \A k \in b..(i - 1) : IsAlpha(At(t, k))
                    /\ b = 0 \/ ~IsAlpha(At(t, b - 1))
    IN Slice(t, start, i)

\* the mark at index i of t is followed by whitespace and then an uppercase
\* letter, a digit or an opening quote or bracket, and the word before it is
\* neither an abbreviation nor a single capital letter
ClaimedBoundary(t, i) ==
    /\ At(t, i) \in SentenceEnders
    /\ i + 1 < Len(t)
    /\ IsSpace(At(t, i + 1))
    /\ \E j \in (i + 2)..(Len(t) - 1) :
          /\ \A k \in (i + 1)..(j - 1) : IsSpace(At(t, k))
          /\ \/ IsUpper(At(t, j))
             \/ IsDigit(At(t, j))
             \/ At(t, j) \in OpeningMarks
    /\ Lower(WordBefore(t, i)) \notin ABBREVIATIONS
    /\ ~(Len(WordBefore(t, i)) = 1 /\ IsUpper(WordBefore(t, i)[1]))

\* index in the normalised text of the last character of the k-th sentence
SentenceEnd(sents, k) == SumLen(SubSeq(sents, 1, k)) + (k - 1) - 1

\* C18: every place inside the text where split_into_sentences ends a
\* sentence is a '.', '!' or '?' followed by whitespace and then an uppercase
\* letter, a digit or an opening quote or bracket, whose preceding word is
\* neither a known abbreviation nor a single capital letter; and
\* "Dr. Lee joined in 2020. She leads the robotics lab." with target size 40
\* and overlap 10 is chunked into its two sentences.
C18_BoundaryOnlyWhereClaimed ==
    /\ (chunk_pc # "call" /\ text \notin ParagraphTexts)
       => /\ Join(Texts(sentences), <<" ">>) = NormalizeWhitespace(text)
          /\ \A k \in 1..(Len(sentences) - 1) :
                ClaimedBoundary(NormalizeWhitespace(text),
                                SentenceEnd(Texts(sentences), k))
    /\ (chunk_pc = "returned" /\ text = DrLeeText)
       => chunks = <<DrLeeFirst, DrLeeSecond>>

\* the example text has been chunked into its two sentences
C18_Witness ==
    /\ chunk_pc = "returned"
    /\ text = DrLeeText
    /\ Texts(sentences) = <<DrLeeFirst, DrLeeSecond>>
    /\ chunks = <<DrLeeFirst, DrLeeSecond>>

\* C19: a text longer than 200 characters without a sentence split and with
\* blank-line paragraph breaks is split into its paragraphs.
C19_ParagraphFallback ==
    (chunk_pc # "call" /\ text \in ParagraphTexts)
       => Texts(sentences) = StripNonEmpty(SplitParagraphs(text, 0, 0))

(***************************************************************************)
(* The lexical channel and the two rank lists of retrieve.                 *)
(***************************************************************************)
\* C21: when the loop over the query variations has ended, the combined
\* lexical score of every surviving candidate is the maximum over the
\* variations of the ranking model's score of that candidate, whether the
\* scores are positive, zero or negative.
C21_CombinedIsMaximum ==
    (q_pc = "lexical" /\ lex_idx > 0 /\ lex_idx = Len(query_variations))
       => combined_bm25_scores = lexical_max

\* position (from 1) of a candidate in vector_results
PositionOf(id) == CHOOSE i \in 1..Len(vector_results) : vector_results[i] = id

\* the ranks are a permutation of 0..n-1 of the n candidates
IsRanking(ranks, n) ==
    /\ DOMAIN ranks = Range(vector_results)
    /\ { ranks[id] : id \in DOMAIN ranks } = 0..(n - 1)
    /\ \A a, b \in DOMAIN ranks : ranks[a] = ranks[b] => a = b

\* C22: at fusion with n surviving candidates each channel gives every
\* candidate a rank; the ranks of a channel are a permutation of 0..n-1; a
\* candidate with a strictly higher best vector score (combined lexical
\* score) has a strictly smaller vector (lexical) rank; the default rank of
\* a candidate missing from a channel is n, and it is never used because no
\* candidate is missing.
C22_RanksArePermutations ==
    q_pc = "fused"
       => LET n == Len(vector_results) IN
          /\ n > 0
          /\ IsRanking(vector_ranks, n)
          /\ IsRanking(bm25_ranks, n)
          /\ \A a, b \in Range(vector_results) :
                /\ best_vector_scores[a] > best_vector_scores[b]
                      => vector_ranks[a] < vector_ranks[b]
                /\ combined_bm25_scores[PositionOf(a)] > combined_bm25_scores[PositionOf(b)]
                      => bm25_ranks[a] < bm25_ranks[b]
          /\ \A id \in ChunkIds \ Range(vector_results) :
                /\ Get(vector_ranks, id, n) = n
                /\ Get(bm25_ranks, id, n) = n
          /\ \A id \in Range(vector_results) :
                fused_scores[id] = rrf_score(vector_ranks[id], bm25_ranks[id])

\* two candidates that the two channels rank in opposite orders
C22_Witness ==
    /\ q_pc = "fused"
    /\ Len(vector_results) = 2
    /\ best_vector_scores[vector_results[1]] > best_vector_scores[vector_results[2]]
    /\ combined_bm25_scores[1] < combined_bm25_scores[2]
    /\ vector_ranks[vector_results[1]] = 0
    /\ bm25_ranks[vector_results[1]] = 1

(***************************************************************************)
(* The list retrieve returns.                                              *)
(***************************************************************************)
\* the chunk ids of the list retrieve is about to hand back
ReturnedIds == { candidates'[i].chunk_id : i \in 1..Len(candidates') }

\* C23: the list retrieve returns over n surviving candidates has length
\* min(n, top_k), holds no candidate twice, is ordered by non-increasing
\* fused score, and every returned candidate has a fused score at least that
\* of every surviving candidate that was not returned.
C23_TopKByFusedScore ==
    [][ (q_pc = "fused" /\ q_pc' = "retrieve_returned")
           => /\ Len(candidates') = Min(Len(vector_results), top_k')
              /\ ReturnedIds \subseteq Range(vector_results)
              /\ Cardinality(ReturnedIds) = Len(candidates')
              /\ \A i, j \in 1..Len(candidates') :
                    i < j => RatLe(fused_scores[candidates'[j].chunk_id],
                                   fused_scores[candidates'[i].chunk_id])
              /\ \A r \in ReturnedIds :
                    \A s \in Range(vector_results) \ ReturnedIds :
                       RatLe(fused_scores[s], fused_scores[r]) ]_vars

\* retrieve returned two candidates of different fused scores, the better
\* one first
C23_Witness ==
    /\ q_pc = "retrieve_returned"
    /\ top_k = 2
    /\ Len(candidates) = 2
    /\ RatLt(candidates[2].similarity, candidates[1].similarity)

(***************************************************************************)
(* The result of rerank_chunks.                                            *)
(***************************************************************************)
\* position in candidates of the i-th reranked chunk
CandidateOf(i) ==
    CHOOSE p \in 1..Len(candidates) :
        candidates[p].chunk_id = reranked_chunks[i].chunk_id

\* positions in candidates of the chunks the reranker kept
KeptPositions == { CandidateOf(i) : i \in 1..Len(reranked_chunks) }

\* C24: given at least two candidates, rerank_chunks returns exactly
\* min(len(candidates), top_k) chunks, none twice and none invented: the
\* ones with the highest cross-encoder scores, in non-increasing score, each
\* with the sigmoid of its own score as similarity and its other fields
\* unchanged.
C24_RerankTopKByScore ==
    (q_pc = "reranked" /\ Len(candidates) >= 2)
       => /\ Len(reranked_chunks) = Min(Len(candidates), max_chunks)
          /\ \A i \in 1..Len(reranked_chunks) :
                \E p \in 1..Len(candidates) :
                   candidates[p].chunk_id = reranked_chunks[i].chunk_id
          /\ Cardinality(KeptPositions) = Len(reranked_chunks)
          /\ \A i \in 1..Len(reranked_chunks) :
                reranked_chunks[i] =
                   [candidates[CandidateOf(i)] EXCEPT
                       !.similarity = sigmoid(ce_scores[CandidateOf(i)])]
          /\ \A i, j \in 1..Len(reranked_chunks) :
                i < j => ce_scores[CandidateOf(i)] >= ce_scores[CandidateOf(j)]
          /\ \A p \in KeptPositions :
                \A r \in (1..Len(candidates)) \ KeptPositions :
                   ce_scores[p] >= ce_scores[r]

\* of two candidates the reranker kept one, the second, which the
\* cross-encoder scored higher than the first
C24_Witness ==
    /\ q_pc = "reranked"
    /\ Len(candidates) = 2
    /\ max_chunks = 1
    /\ ce_scores[2] > ce_scores[1]
    /\ Len(reranked_chunks) = 1
    /\ reranked_chunks[1].chunk_id = candidates[2].chunk_id
    /\ reranked_chunks[1].similarity = sigmoid(ce_scores[2])

(***************************************************************************)
(* The array expand_query takes from the completion text.                  *)
(***************************************************************************)
\* positions of the reply at which a well-formed JSON array starts
ArrayStarts(content) ==
    { k \in 1..Len(content) :
         /\ content[k].t = "["
         /\ ParseValue(content, k).ok }

\* the entries of the first well-formed array of the reply
FirstArray(content) ==
    LET first == CHOOSE k \in ArrayStarts(content) :
                    \A j \in ArrayStarts(content) : k <= j
    IN ParseValue(content, first).val.items

\* C25: when the completion text contains a well-formed JSON array of
\* alternative phrasings, expand_query returns the query followed by the
\* first two entries of the first such array that differ from the query,
\* whatever precedes or follows the array in the text.
C25_FirstArrayUsed ==
    ( /\ expand_pc = "returned"
      /\ completion.kind = "content"
      /\ ArrayStarts(completion.content) # {}
      /\ Len(FirstArray(completion.content)) >= 1
      /\ \A k \in 1..Len(FirstArray(completion.content)) :
            FirstArray(completion.content)[k].type = "str" )
       => expanded = <<query>> \o KeepDifferent(FirstTwo(FirstArray(completion.content)), query)

(***************************************************************************)
(* retrieve with the searches of two query variations merged in either     *)
(* order.                                                                  *)
(***************************************************************************)
\* retrieve from the merged search results on: the threshold filter, the
\* two rank lists, the fusion, the sort and the cut; lexical[id] is the
\* combined lexical score of the chunk
RetrieveFrom(merged, threshold, lexical, k) ==
    LET best == merged.best_vector_scores
        filtered_ids == FilterIds(merged.all_results, best, threshold)
        results == StableSortDesc(filtered_ids, LAMBDA a, b : best[a] > best[b])
        n == Len(results)
        combined == [i \in 1..n |-> lexical[results[i]]]
        ranks == RanksOf(results)
        bm25_ranked_indices ==
            StableSortDesc([i \in 1..n |-> i],
                           LAMBDA a, b : combined[a] > combined[b])
        lex == [id \in Range(results) |->
                  (CHOOSE r \in 1..n : results[bm25_ranked_indices[r]] = id) - 1]
        fused == [id \in Range(results) |->
                    rrf_score(Get(ranks, id, n), Get(lex, id, n))]
        sorted_ids == StableSortDesc(results,
                                     LAMBDA a, b : RatLt(fused[b], fused[a]))
        kept == SubSeq(sorted_ids, 1, Min(k, n))
    IN [i \in 1..Len(kept) |->
           RetrievedChunk(kept[i], FusionSimilarity(fused[kept[i]]))]

\* retrieve has expanded the query into two variations and embedded them;
\* merge_lists holds what the index returns for each
InitOrder ==
    /\ ChunkIdle
    /\ ExpandIdle
    /\ ConfIdle
    /\ SubmitIdle
    /\ UploadIdle
    /\ LazyIdle
    /\ merge_lists \in ShortHitLists \X ShortHitLists
    /\ merge_order = <<>>
    /\ merge_result = EmptyMerge
    /\ q_pc = "searching"
    /\ top_k = 0
    /\ similarity_threshold \in Thresholds
    /\ query_variations = << <<"q">>, <<"a">> >>
    /\ var_idx = 0
    /\ all_results = <<>>
    /\ best_vector_scores = <<>>
    /\ vector_results = <<>>
    /\ lex_idx = 0
    /\ combined_bm25_scores = <<>>
    /\ vector_ranks = <<>>
    /\ bm25_ranks = <<>>
    /\ fused_scores = <<>>
    /\ observed = {}
    /\ lexical_max = <<>>

\* the loop over the variations with the two searches merged in one of the
\* two orders
QSearchInOrder ==
    /\ q_pc = "searching"
    /\ merge_order = <<>>
    /\ \E order \in Orders(2) :
          LET merged == MergeAll(merge_lists, order, 1, EmptyMerge) IN
          /\ merge_order' = order
          /\ merge_result' = merged
          /\ all_results' = merged.all_results
          /\ best_vector_scores' = merged.best_vector_scores
    /\ var_idx' = Len(query_variations)
    /\ UNCHANGED <<q_pc, top_k, similarity_threshold, query_variations,
                   vector_results, lex_idx, combined_bm25_scores, vector_ranks,
                   bm25_ranks, fused_scores, observed, lexical_max>>
    /\ UNCHANGED submit_vars
    /\ UNCHANGED merge_lists
    /\ UNCHANGED <<chunk_vars, expand_vars, conf_vars, upload_vars, lazy_vars>>

NextOrder ==
    \/ QSearchInOrder
    \/ QNoResults
    \/ QFilteredOut
    \/ QFilter
    \/ QLexical
    \/ QFuse
    \/ QRetrieveReturn

SpecOrder == InitOrder /\ [][NextOrder]_vars

\* the combined lexical score of each surviving chunk
LexicalById ==
    [id \in Range(vector_results) |-> combined_bm25_scores[PositionOf(id)]]

\* C26: whichever order the searches of the variations are merged in,
\* retrieve returns the list it returns when they are merged in the order
\* of the variations, ties of the vector, lexical or fused score included.
C26_ListIndependentOfMergeOrder ==
    [][ (q_pc = "fused" /\ q_pc' = "retrieve_returned")
           => candidates' =
                 RetrieveFrom(MergeAll(merge_lists, <<1, 2>>, 1, EmptyMerge),
                              similarity_threshold, LexicalById, top_k') ]_vars

\* the same with the ties of the best vector score left out
C26_IndependentWithoutVectorTies ==
    [][ ( /\ q_pc = "fused"
          /\ q_pc' = "retrieve_returned"
          /\ \A a, b \in Range(vector_results) :
                a # b => best_vector_scores[a] # best_vector_scores[b] )
           => candidates' =
                 RetrieveFrom(MergeAll(merge_lists, <<1, 2>>, 1, EmptyMerge),
                              similarity_threshold, LexicalById, top_k') ]_vars

(***************************************************************************)
(* The chunker keeps every sentence, in order.                             *)
(***************************************************************************)
\* the positions in the sentence list of the sentences of the n-th chunk
ChunkPositions(n) == [k \in 1..Len(chunk_log[n]) |-> chunk_log[n][k].id]

\* the sentences of the n-th chunk without those seeded from its predecessor
WithoutOverlap(n) ==
    IF n = 1 THEN chunk_log[1]
    ELSE SubSeq(chunk_log[n],
                Cardinality(ReusedPositions(chunk_log[n - 1], chunk_log[n])) + 1,
                Len(chunk_log[n]))

\* the chunks up to the n-th, each without its overlap, one after another
RECURSIVE ConcatWithoutOverlap(_)
ConcatWithoutOverlap(n) ==
    IF n = 0 THEN <<>> ELSE ConcatWithoutOverlap(n - 1) \o WithoutOverlap(n)

\* C27: when chunk_text_by_sentences returns, every chunk is the join of
\* its sentences; every sentence of split_into_sentences is in some chunk;
\* inside a chunk the sentences are consecutive sentences in their original
\* order and the chunks follow one another in that order; every chunk ends
\* with a sentence no earlier chunk holds, so there are at most as many
\* chunks as sentences; and the chunks without their overlap sentences,
\* concatenated, are the sentence list.
C27_NothingLostOrReordered ==
    chunk_pc = "returned"
       => /\ Len(chunks) = Len(chunk_log)
          /\ \A n \in 1..Len(chunk_log) :
                /\ Len(chunk_log[n]) > 0
                /\ chunks[n] = Join(Texts(chunk_log[n]), <<" ">>)
                /\ \A k \in 1..Len(chunk_log[n]) :
                      /\ chunk_log[n][k].id \in 1..Len(sentences)
                      /\ chunk_log[n][k] = sentences[chunk_log[n][k].id]
                /\ \A k \in 1..(Len(chunk_log[n]) - 1) :
                      ChunkPositions(n)[k + 1] = ChunkPositions(n)[k] + 1
          /\ \A k \in 1..Len(sentences) :
                \E n \in 1..Len(chunk_log) : k \in Range(ChunkPositions(n))
          /\ \A n \in 1..(Len(chunk_log) - 1) :
                /\ ChunkPositions(n)[1] <= ChunkPositions(n + 1)[1]
                /\ ChunkPositions(n)[Len(chunk_log[n])]
                      < ChunkPositions(n + 1)[Len(chunk_log[n + 1])]
          /\ \A n \in 1..Len(chunk_log) : \A m \in 1..(n - 1) :
                ChunkPositions(n)[Len(chunk_log[n])] \notin Range(ChunkPositions(m))
          /\ Len(chunk_log) <= Len(sentences)
          /\ ConcatWithoutOverlap(Len(chunk_log)) = sentences

\* at least three sentences came back in at least two chunks, one of which
\* starts with a sentence seeded from its predecessor
C27_Witness ==
    /\ chunk_pc = "returned"
    /\ Len(sentences) >= 3
    /\ Len(chunk_log) >= 2
    /\ \E n \in 2..Len(chunk_log) :
          /\ Cardinality(ReusedPositions(chunk_log[n - 1], chunk_log[n])) >= 1
          /\ Len(WithoutOverlap(n)) >= 1

(***************************************************************************)
(* The document's chunk records and index points after upload and delete.  *)
(* One document is followed, so every point of the index carries its id.   *)
(***************************************************************************)
\* C28: once delete_document has completed for the document, whatever its
\* history and whatever the vector-store delete call did, the vector index
\* holds no point of the document.
C28_NoPointsAfterDelete ==
    doc_status = "deleted" => index_points = {}

\* the point of the index with the given id
PointWithId(id) == CHOOSE p \in index_points : p.id = id

\* C29: whenever the document's status is processed, its committed chunk
\* records and its index points correspond one to one by id, the chunk
\* indexes are 0..n-1 in the order of the chunker's output, and each record
\* agrees with its point on chunk index, page number and text.
C29_RecordsMatchPoints ==
    doc_status = "processed"
       => /\ Len(db_chunks) = Len(chunks)
          /\ Cardinality(index_points) = Len(db_chunks)
          /\ { p.id : p \in index_points } = EmbeddingIds
          /\ Cardinality(EmbeddingIds) = Len(db_chunks)
          /\ \A k \in 1..Len(db_chunks) :
                /\ db_chunks[k].chunk_index = k - 1
                /\ db_chunks[k].text_content = chunks[k]
                /\ db_chunks[k].id = db_chunks[k].embedding_id
                /\ PointWithId(db_chunks[k].embedding_id).chunk_index
                      = db_chunks[k].chunk_index
                /\ PointWithId(db_chunks[k].embedding_id).page_number
                      = db_chunks[k].page_number
                /\ PointWithId(db_chunks[k].embedding_id).text_content
                      = db_chunks[k].text_content

\* a PDF of two pages was processed into at least two chunks on different
\* pages
C29_Witness ==
    /\ doc_status = "processed"
    /\ file_ext = ".pdf"
    /\ Len(db_chunks) >= 2
    /\ db_chunks[1].page_number # db_chunks[2].page_number
    /\ Cardinality(index_points) = Len(db_chunks)

\* C30: after a PDF of P >= 1 pages has been processed, the recorded
\* num_pages is P and the page number of every chunk lies in 1..P.
C30_PageCount ==
    (doc_status = "processed" /\ file_ext = ".pdf" /\ Len(page_breaks) >= 1)
       => /\ num_pages = Len(page_breaks)
          /\ \A k \in 1..Len(db_chunks) :
                db_chunks[k].page_number \in 1..Len(page_breaks)

\* C30, the part about the chunks alone
C30_PageNumbersInRange ==
    (doc_status = "processed" /\ file_ext = ".pdf" /\ Len(page_breaks) >= 1)
       => \A k \in 1..Len(db_chunks) :
             db_chunks[k].page_number \in 1..Len(page_breaks)

====
